---- MODULE Spec2Model ----
(***************************************************************************)
(* Model of the insight computations of the NFL fantasy dashboard          *)
(* (src/insights.py), of the rookie and consistency charts of              *)
(* src/visualizations.py and of the player comparison page of              *)
(* src/player_comparison.py.  The state is the observation table df and    *)
(* what each computation has left; every computation is one action that    *)
(* reads df and stores how the call ended: the value returned, or the      *)
(* exception raised.                                                       *)
(*                                                                         *)
(* Numbers.  A pandas float cell is a record [kind, val]: kind "num" with  *)
(* an integer val, "nan", or "inf" (val 0).  Fantasy points and their sums *)
(* and differences are whole points.  A percentage, a quotient that may    *)
(* divide by zero, is the exact rational [kind, num, den] or "nan", "inf", *)
(* "ninf".  Means, standard deviations and the scores and ratios derived   *)
(* from them are decimals kept in hundredths (val = 100 * value, rounded   *)
(* down).                                                                  *)
(***************************************************************************)
EXTENDS Integers, Sequences, FiniteSets, TLC

VARIABLES df, rookie_out, chart_out, breakout_out, value_out, draft_out,
          consistency_out, consistency_chart_out, comparison_out, interface_out,
          trends_out, summary_out, repeat_out, snapshot, subset_out,
          nfl, pc, frames, files, success, steps

\* the state of the collection script
collect_vars == <<nfl, pc, frames, files, success, steps>>

\* the state of the dashboard
dashboard_vars ==
    <<df, rookie_out, chart_out, breakout_out, value_out, draft_out,
      consistency_out, consistency_chart_out, comparison_out, interface_out,
      trends_out, summary_out, repeat_out, snapshot, subset_out>>

vars == <<df, rookie_out, chart_out, breakout_out, value_out, draft_out,
          consistency_out, consistency_chart_out, comparison_out, interface_out,
          trends_out, summary_out, repeat_out, snapshot, subset_out, collect_vars>>

\* ------------------------------------------------------------ bounds
MaxRows == 3

\* ------------------------------------------------------------ floats
Num(n) == [kind |-> "num", val |-> n]
NaN == [kind |-> "nan", val |-> 0]

IsNum(x) == x.kind = "num"
IsNaN(x) == x.kind = "nan"

\* float subtraction of two point values (finite or NaN)
FSub(a, b) == IF IsNum(a) /\ IsNum(b) THEN Num(a.val - b.val) ELSE NaN

\* ------------------------------------------------------------ the table
Positions == <<"QB", "RB", "WR", "TE">>
PositionSet == {Positions[k] : k \in DOMAIN Positions}

\* the order pandas sorts the position strings in (groupby sorts its keys)
PosRank(p) == CASE p = "QB" -> 0 [] p = "RB" -> 1 [] p = "TE" -> 2 [] p = "WR" -> 3

\* the display names of the tables below, in the order pandas sorts them in
Names ==
    <<"P01", "P02", "P03", "P04", "P05", "P06", "P07", "P08",
      "P09", "P10", "P11", "P12", "P13", "P14", "P15", "P16",
      "P17", "P18", "P19", "P20", "P21", "P22", "P23", "P24",
      "P25", "P26", "P27", "P28", "P29", "P30", "P31", "P32">>

NameRank(n) == CHOOSE i \in DOMAIN Names : Names[i] = n

Row(id, name, pos, season, week, pts) ==
    [player_id |-> id, player_display_name |-> name, position |-> pos,
     season |-> season, week |-> week, fantasy_points_ppr |-> pts]

RECURSIVE Sum(_)
Sum(s) == IF s = <<>> THEN 0 ELSE Head(s) + Sum(Tail(s))

\* Series.sum(): NaN cells are skipped, the sum of no cells is 0
PointsOf(t) == [i \in DOMAIN t |-> t[i].fantasy_points_ppr]
NonNull(s) == SelectSeq(s, IsNum)
Vals(s) == [i \in DOMAIN s |-> s[i].val]
SumPoints(t) == Sum(Vals(NonNull(PointsOf(t))))

\* membership in a list (isin) and the set of its elements
InSeq(x, s) == \E i \in DOMAIN s : s[i] = x
SeqSet(s) == {s[i] : i \in DOMAIN s}

\* the columns of the table the dashboard reads that the model keeps
SourceColumns ==
    {"player_id", "player_display_name", "position", "season", "week",
     "fantasy_points_ppr"}

\* the columns of a table (a table without rows has those of the file)
Columns(t) == IF t = <<>> THEN SourceColumns ELSE DOMAIN t[1]

\* a set, as the sequence of its elements in ascending rank (rank: a function)
RECURSIVE SortSet(_, _)
SortSet(S, rank) ==
    IF S = {} THEN <<>>
    ELSE LET m == CHOOSE x \in S : \A y \in S : rank[x] <= rank[y]
         IN  <<m>> \o SortSet(S \ {m}, rank)

\* ------------------------------------------------------------ rookie classifier
\* a faulty variant: the player's last season instead of the first
player_first_season_max(t) ==
    [p \in {t[i].player_id : i \in DOMAIN t} |->
        LET S == {t[i].season : i \in {j \in DOMAIN t : t[j].player_id = p}}
        IN  CHOOSE m \in S : \A s \in S : m >= s]

\* df.groupby('player_id')['season'].min()
player_first_season(t) ==
    [p \in {t[i].player_id : i \in DOMAIN t} |->
        LET S == {t[i].season : i \in {j \in DOMAIN t : t[j].player_id = p}}
        IN  CHOOSE m \in S : \A s \in S : m <= s]

\* merge on player_id (how='left') and the is_rookie column
WithRookie(t) ==
    LET first == player_first_season(t)
    IN  [i \in DOMAIN t |->
            [row |-> t[i],
             rookie_season |-> first[t[i].player_id],
             is_rookie |-> (t[i].season = first[t[i].player_id])]]

\* hundredths per unit of the decimals (means, deviations, scores)
Scale == 10 * 10

\* Series.mean(): NaN cells are skipped, the mean of no cells is NaN
Mean(s) ==
    LET v == Vals(NonNull(s))
    IN  IF v = <<>> THEN NaN ELSE Num((Sum(v) * Scale) \div Len(v))

\* pos_data[mask]['fantasy_points_ppr'] of the labelled table
RookiePoints(lt, pos, flag) ==
    LET sel == SelectSeq(lt, LAMBDA x : x.row.position = pos /\ x.is_rookie = flag)
    IN  [i \in DOMAIN sel |-> sel[i].row.fantasy_points_ppr]

RookieWeekPoints(lt, pos, early) ==
    LET sel == SelectSeq(lt, LAMBDA x : /\ x.row.position = pos
                                        /\ x.is_rookie
                                        /\ (x.row.week <= 4) = early)
    IN  [i \in DOMAIN sel |-> sel[i].row.fantasy_points_ppr]

\* (veteran_avg - rookie_avg) / veteran_avg * 100 if veteran_avg > 0 else 0
GapPercentage(veteran_avg, rookie_avg) ==
    IF IsNum(veteran_avg) /\ veteran_avg.val > 0
    THEN IF IsNum(rookie_avg)
         THEN Num(((veteran_avg.val - rookie_avg.val) * 100 * Scale) \div veteran_avg.val)
         ELSE NaN
    ELSE Num(0)

RookiePositionInsights(lt, pos) ==
    LET rookie_avg == Mean(RookiePoints(lt, pos, TRUE))
        veteran_avg == Mean(RookiePoints(lt, pos, FALSE))
        rookie_early == Mean(RookieWeekPoints(lt, pos, TRUE))
        rookie_late == Mean(RookieWeekPoints(lt, pos, FALSE))
    IN  [rookie_avg |-> rookie_avg,
         veteran_avg |-> veteran_avg,
         performance_gap |-> FSub(veteran_avg, rookie_avg),
         gap_percentage |-> GapPercentage(veteran_avg, rookie_avg),
         early_season_avg |-> rookie_early,
         late_season_avg |-> rookie_late,
         adaptation_improvement |->
             IF IsNum(rookie_late) /\ IsNum(rookie_early)
             THEN FSub(rookie_late, rookie_early) ELSE Num(0)]

calculate_rookie_insights(t) ==
    LET lt == WithRookie(t)
    IN  [df_with_rookie |-> lt,
         insights |-> [pos \in PositionSet |-> RookiePositionInsights(lt, pos)]]

\* the same labelling, repeated in the chart builder; the chart plots the mean
\* points of each (position, is_rookie) group
chart_first_season(t) ==
    [p \in {t[i].player_id : i \in DOMAIN t} |->
        LET S == {t[i].season : i \in {j \in DOMAIN t : t[j].player_id = p}}
        IN  CHOOSE m \in S : \A s \in S : m <= s]

create_rookie_analysis_chart(t) ==
    LET first == chart_first_season(t)
        lt == [i \in DOMAIN t |->
                 [row |-> t[i],
                  rookie_season |-> first[t[i].player_id],
                  is_rookie |-> (t[i].season = first[t[i].player_id])]]
        groups == {<<lt[i].row.position, lt[i].is_rookie>> : i \in DOMAIN lt}
    IN  [df_with_rookie |-> lt,
         rookie_analysis |-> [g \in groups |-> Mean(RookiePoints(lt, g[1], g[2]))]]

\* ------------------------------------------------------------ trend detector
\* a percentage cell: the exact quotient num / den (den > 0), or nan / inf / ninf
Pct(kind, num, den) == [kind |-> kind, num |-> num, den |-> den]

\* yoy_change / prev_season_points * 100 in float arithmetic: a division by
\* zero gives inf, -inf or (0 / 0) NaN, and a NaN operand gives NaN
YoyChangePct(yoy, prev) ==
    IF ~IsNum(yoy) \/ ~IsNum(prev) THEN Pct("nan", 0, 1)
    ELSE IF prev.val = 0
         THEN IF yoy.val > 0 THEN Pct("inf", 0, 1)
              ELSE IF yoy.val < 0 THEN Pct("ninf", 0, 1) ELSE Pct("nan", 0, 1)
         ELSE IF prev.val > 0 THEN Pct("num", yoy.val * 100, prev.val)
              ELSE Pct("num", -(yoy.val * 100), -prev.val)

\* float comparisons of a percentage cell with a whole number and with
\* another cell (every comparison with NaN is false)
PctGt(p, c) == p.kind = "inf" \/ (p.kind = "num" /\ p.num > c * p.den)
PctLt(p, c) == p.kind = "ninf" \/ (p.kind = "num" /\ p.num < c * p.den)
PctGreater(p, q) ==
    CASE p.kind = "nan" \/ q.kind = "nan" -> FALSE
      [] p.kind = "inf" -> q.kind # "inf"
      [] p.kind = "ninf" -> FALSE
      [] q.kind = "inf" -> FALSE
      [] q.kind = "ninf" -> TRUE
      [] OTHER -> p.num * q.den > q.num * p.den

BreakoutPoints == 50
BreakoutPct == 25
TopChanges == 10

\* the sequence s in the order of a stable sort: before[i, j] says that row
\* i goes before row j by its key (a strict order); rows that tie keep their
\* order in s
StableSort(s, before) ==
    LET rank(i) == Cardinality({j \in DOMAIN s :
                       before[j, i] \/ (~before[i, j] /\ j < i)})
    IN  [k \in 1..Len(s) |-> s[CHOOSE i \in DOMAIN s : rank(i) = k - 1]]

Take(s, n) == IF Len(s) <= n THEN s ELSE SubSeq(s, 1, n)

\* df.groupby('player_id')['season'].nunique() >= 2
multi_season_players(t) ==
    {p \in {t[i].player_id : i \in DOMAIN t} :
        Cardinality({t[i].season : i \in {j \in DOMAIN t : t[j].player_id = p}}) >= 2}

StatKey(r) == <<r.player_id, r.player_display_name, r.position, r.season>>

\* groupby([player_id, player_display_name, position, season]) sum, then
\* sort_values([player_id, season]): a stable sort of the key-sorted groups,
\* so rows of one player and season stay in (name, position) order
SeasonStats(t) ==
    LET keys == {StatKey(t[i]) : i \in DOMAIN t}
        rank == [k \in keys |->
                    ((k[1] * 8 + (k[4] - 2018)) * 64 + NameRank(k[2])) * 4 + PosRank(k[3])]
        order == SortSet(keys, rank)
    IN  [n \in DOMAIN order |->
            LET k == order[n]
            IN  [player_id |-> k[1], player_display_name |-> k[2],
                 position |-> k[3], season |-> k[4],
                 fantasy_points_ppr |->
                     Num(SumPoints(SelectSeq(t, LAMBDA r : StatKey(r) = k)))]]

\* groupby('player_id')['fantasy_points_ppr'].shift(1): the value of the row
\* before it among the rows of the same player, NaN for the player's first row
PrevSeasonPoints(stats, n) ==
    IF n > 1 /\ stats[n - 1].player_id = stats[n].player_id
    THEN stats[n - 1].fantasy_points_ppr
    ELSE NaN

WithYoy(stats) ==
    [n \in DOMAIN stats |->
        LET prev == PrevSeasonPoints(stats, n)
            yoy == FSub(stats[n].fantasy_points_ppr, prev)
        IN  [player_id |-> stats[n].player_id,
             player_display_name |-> stats[n].player_display_name,
             position |-> stats[n].position,
             season |-> stats[n].season,
             fantasy_points_ppr |-> stats[n].fantasy_points_ppr,
             prev_season_points |-> prev,
             yoy_change |-> yoy,
             yoy_change_pct |-> YoyChangePct(yoy, prev)]]

\* dropna(subset=['yoy_change'])
ValidChanges(stats) == SelectSeq(WithYoy(stats), LAMBDA r : IsNum(r.yoy_change))

\* a faulty variant: a percentage of exactly 25 counts as a breakout
IsBreakoutInclusive(r) ==
    r.yoy_change.val > BreakoutPoints /\ ~PctLt(r.yoy_change_pct, BreakoutPct)

\* (yoy_change > 50) & (yoy_change_pct > 25)
IsBreakout(r) == r.yoy_change.val > BreakoutPoints /\ PctGt(r.yoy_change_pct, BreakoutPct)

\* (yoy_change < -50) & (yoy_change_pct < -25)
IsBust(r) == r.yoy_change.val < -BreakoutPoints /\ PctLt(r.yoy_change_pct, -BreakoutPct)

\* DataFrame.nlargest / nsmallest(10, 'yoy_change_pct'), keep='first'
NLargestPct(s, n) ==
    Take(StableSort(s, [i, j \in DOMAIN s |->
                          PctGreater(s[i].yoy_change_pct, s[j].yoy_change_pct)]), n)
NSmallestPct(s, n) ==
    Take(StableSort(s, [i, j \in DOMAIN s |->
                          PctGreater(s[j].yoy_change_pct, s[i].yoy_change_pct)]), n)

\* the entry of one position (present: the position has a valid change and so
\* an entry); the mean and deviation of yoy_change, which no ranking reads,
\* are left out
BreakoutPositionInsights(valid, pos) ==
    LET pos_data == SelectSeq(valid, LAMBDA r : r.position = pos)
        met_breakout == SelectSeq(pos_data, IsBreakout)
        met_bust == SelectSeq(pos_data, IsBust)
        breakouts == NLargestPct(met_breakout, TopChanges)
        busts == NSmallestPct(met_bust, TopChanges)
    IN  [present |-> pos_data # <<>>,
         pos_data |-> pos_data,
         met_breakout |-> met_breakout,
         met_bust |-> met_bust,
         breakouts |-> breakouts,
         busts |-> busts,
         breakout_rate |->
             IF pos_data # <<>>
             THEN Num((Len(breakouts) * 100 * Scale) \div Len(pos_data)) ELSE Num(0),
         bust_rate |->
             IF pos_data # <<>>
             THEN Num((Len(busts) * 100 * Scale) \div Len(pos_data)) ELSE Num(0)]

calculate_breakout_insights(t) ==
    LET multi == multi_season_players(t)
        multi_season_data == SelectSeq(t, LAMBDA r : r.player_id \in multi)
        valid == ValidChanges(SeasonStats(multi_season_data))
    IN  [valid_changes |-> valid,
         insights |-> [pos \in PositionSet |-> BreakoutPositionInsights(valid, pos)]]

\* ------------------------------------------------------------ value ranker
RECURSIVE IsqrtBetween(_, _, _)
IsqrtBetween(n, lo, hi) ==
    IF lo = hi THEN lo
    ELSE LET mid == (lo + hi + 1) \div 2
         IN  IF mid * mid <= n THEN IsqrtBetween(n, mid, hi) ELSE IsqrtBetween(n, lo, mid - 1)

\* the whole part of the square root
Isqrt(n) == IsqrtBetween(n, 0, 46340)

Squares(v) == [i \in DOMAIN v |-> v[i] * v[i]]

\* a faulty variant: the population deviation (n denominator), 0 for one cell
StdPopulation(s) ==
    LET v == Vals(NonNull(s))
        n == Len(v)
    IN  IF n < 1 THEN NaN
        ELSE Num(Isqrt(((n * Sum(Squares(v)) - Sum(v) * Sum(v)) * Scale * Scale)
                          \div (n * n)))

\* Series.std(): the sample deviation (n - 1 denominator) of the non-null
\* cells, NaN when there are fewer than two
Std(s) ==
    LET v == Vals(NonNull(s))
        n == Len(v)
    IN  IF n < 2 THEN NaN
        ELSE Num(Isqrt(((n * Sum(Squares(v)) - Sum(v) * Sum(v)) * Scale * Scale)
                          \div (n * (n - 1))))

\* a faulty variant: the ranks of the two groups of positions exchanged
ReplacementRankSwapped(pos) ==
    CASE pos = "QB" -> 24 [] pos = "RB" -> 12 [] pos = "WR" -> 12 [] pos = "TE" -> 24
      [] OTHER -> 12

\* replacement_ranks.get(position, 12)
ReplacementRank(pos) ==
    CASE pos = "QB" -> 12 [] pos = "RB" -> 24 [] pos = "WR" -> 24 [] pos = "TE" -> 12
      [] OTHER -> 12

TopVbd == 10
TopScarcity == 5

\* groupby([player_id, player_display_name, position, season]) sum, in key order
season_totals(t) ==
    LET keys == {StatKey(t[i]) : i \in DOMAIN t}
        rank == [k \in keys |->
                    ((k[1] * 64 + NameRank(k[2])) * 4 + PosRank(k[3])) * 8 + (k[4] - 2018)]
        order == SortSet(keys, rank)
    IN  [n \in DOMAIN order |->
            LET k == order[n]
            IN  [player_id |-> k[1], player_display_name |-> k[2],
                 position |-> k[3], season |-> k[4],
                 fantasy_points_ppr |->
                     Num(SumPoints(SelectSeq(t, LAMBDA r : StatKey(r) = k)))]]

\* sort_values('fantasy_points_ppr', ascending=False); rows with equal
\* totals are kept in key order
SortByPointsDesc(s) ==
    StableSort(s, [i, j \in DOMAIN s |->
                     s[i].fantasy_points_ppr.val > s[j].fantasy_points_ppr.val])

\* iloc[replacement_rank - 1] of a list that long, else iloc[-1]
ReplacementValue(pos_data, replacement_rank) ==
    IF Len(pos_data) >= replacement_rank
    THEN pos_data[replacement_rank].fantasy_points_ppr
    ELSE pos_data[Len(pos_data)].fantasy_points_ppr

\* a faulty variant: the players at or above the baseline are counted
position_depth_inclusive(points, replacement_value) ==
    Len(SelectSeq(points, LAMBDA x : x.val >= replacement_value.val))

\* len(pos_data[pos_data['fantasy_points_ppr'] > replacement_value])
position_depth(points, replacement_value) ==
    Len(SelectSeq(points, LAMBDA x : x.val > replacement_value.val))

\* a faulty variant: every player is listed
TopVbdPlayersAll(pos_data) == pos_data

\* top_vbd = pos_data.head(10)
TopVbdPlayers(pos_data) == Take(pos_data, TopVbd)

\* a faulty variant: value above replacement clamped at zero
VbdClamped(points, replacement_value) ==
    IF points.val < replacement_value.val THEN Num(0) ELSE FSub(points, replacement_value)

\* fantasy_points_ppr - replacement_value
Vbd(points, replacement_value) == FSub(points, replacement_value)

\* the entry of one season and position (present: the position has a player
\* that season and so an entry)
ValuePositionInsights(totals, season, pos) ==
    LET sorted == SortByPointsDesc(
                      SelectSeq(totals, LAMBDA r : r.season = season /\ r.position = pos))
    IN  IF sorted = <<>> THEN [present |-> FALSE]
        ELSE LET replacement_rank == ReplacementRank(pos)
                 replacement_value == ReplacementValue(sorted, replacement_rank)
                 pos_data == [n \in DOMAIN sorted |->
                                 [player_id |-> sorted[n].player_id,
                                  player_display_name |-> sorted[n].player_display_name,
                                  position |-> sorted[n].position,
                                  season |-> sorted[n].season,
                                  fantasy_points_ppr |-> sorted[n].fantasy_points_ppr,
                                  vbd |-> Vbd(sorted[n].fantasy_points_ppr, replacement_value)]]
                 points == [n \in DOMAIN sorted |-> sorted[n].fantasy_points_ppr]
             IN  [present |-> TRUE,
                  replacement_value |-> replacement_value,
                  pos_data |-> pos_data,
                  top_vbd_players |-> TopVbdPlayers(pos_data),
                  position_depth |-> position_depth(points, replacement_value),
                  avg_starter_points |-> Mean(Take(points, replacement_rank)),
                  scarcity_score |-> Std(Take(points, TopScarcity))]

calculate_positional_value_insights(t) ==
    LET totals == season_totals(t)
    IN  [season \in {t[i].season : i \in DOMAIN t} |->
            [pos \in PositionSet |-> ValuePositionInsights(totals, season, pos)]]

\* ------------------------------------------------------------ recommendation scorer
TrailingSeasons == 2
MinSeasonsPlayed == 2
TopPicks == 5
TopOverall == 10
CurrentSeason == 2024

\* df['season'].isin([current_season - 2, current_season - 1, current_season])
InWindow(season, current_season) ==
    season \in (current_season - TrailingSeasons)..current_season

\* groupby('player_display_name').agg(mean, std, sum of the points and the
\* count of the season cells), one row per name in name order
player_metrics(pos_data) ==
    LET names == {pos_data[i].player_display_name : i \in DOMAIN pos_data}
        order == SortSet(names, [n \in names |-> NameRank(n)])
    IN  [k \in DOMAIN order |->
            LET rows == SelectSeq(pos_data, LAMBDA r : r.player_display_name = order[k])
            IN  [player |-> order[k],
                 avg_ppg |-> Mean(PointsOf(rows)),
                 std_ppg |-> Std(PointsOf(rows)),
                 total_points |-> Num(SumPoints(rows)),
                 seasons_played |-> Len(rows)]]

\* a faulty variant: the offset of the denominator left out
ConsistencyScoreNoOffset(avg_ppg, std_ppg) ==
    IF IsNum(avg_ppg) /\ IsNum(std_ppg) /\ std_ppg.val > 0
    THEN Num((avg_ppg.val * Scale) \div std_ppg.val)
    ELSE NaN

\* avg_ppg / (std_ppg + 1)
ConsistencyScore(avg_ppg, std_ppg) ==
    IF IsNum(avg_ppg) /\ IsNum(std_ppg)
    THEN Num((avg_ppg.val * Scale) \div (std_ppg.val + Scale))
    ELSE NaN

\* (avg_ppg * 0.7) + (consistency_score * 0.3)
DraftScore(avg_ppg, consistency_score) ==
    IF IsNum(avg_ppg) /\ IsNum(consistency_score)
    THEN Num((7 * avg_ppg.val + 3 * consistency_score.val) \div 10)
    ELSE NaN

WithScores(m) ==
    LET consistency_score == ConsistencyScore(m.avg_ppg, m.std_ppg)
    IN  [player |-> m.player, avg_ppg |-> m.avg_ppg, std_ppg |-> m.std_ppg,
         total_points |-> m.total_points, seasons_played |-> m.seasons_played,
         consistency_score |-> consistency_score,
         draft_score |-> DraftScore(m.avg_ppg, consistency_score)]

\* the order of nlargest: larger first, NaN keys after every number
Larger(a, b) == IsNum(a) /\ (IsNaN(b) \/ a.val > b.val)

\* DataFrame.nlargest(n, column), keep='first'
NLargest(s, n, column) ==
    Take(StableSort(s, [i, j \in DOMAIN s |-> Larger(s[i][column], s[j][column])]), n)

\* a faulty variant: the safe picks ranked by mean points
SafePicksByMean(experienced) == NLargest(experienced, TopPicks, "avg_ppg")

\* nlargest(5, 'consistency_score')
SafePicks(experienced) == NLargest(experienced, TopPicks, "consistency_score")

\* nlargest(5, 'avg_ppg')
UpsidePicks(experienced) == NLargest(experienced, TopPicks, "avg_ppg")

\* nlargest(10, 'draft_score')
OverallRankings(experienced) == NLargest(experienced, TopOverall, "draft_score")

\* the entry of one position (present: the position has an experienced
\* player and so an entry)
DraftPositionRecommendations(recent_data, pos) ==
    LET metrics == player_metrics(SelectSeq(recent_data, LAMBDA r : r.position = pos))
        eligible == SelectSeq(metrics, LAMBDA m : m.seasons_played >= MinSeasonsPlayed)
        experienced == [k \in DOMAIN eligible |-> WithScores(eligible[k])]
        safe == SafePicks(experienced)
        upside == UpsidePicks(experienced)
        overall == OverallRankings(experienced)
    IN  IF experienced = <<>> THEN [present |-> FALSE]
        ELSE [present |-> TRUE,
              experienced_players |-> experienced,
              safe_picks |-> [k \in DOMAIN safe |->
                  [player |-> safe[k].player, avg_ppg |-> safe[k].avg_ppg,
                   std_ppg |-> safe[k].std_ppg,
                   consistency_score |-> safe[k].consistency_score]],
              upside_picks |-> [k \in DOMAIN upside |->
                  [player |-> upside[k].player, avg_ppg |-> upside[k].avg_ppg,
                   total_points |-> upside[k].total_points]],
              overall_rankings |-> [k \in DOMAIN overall |->
                  [player |-> overall[k].player, draft_score |-> overall[k].draft_score,
                   avg_ppg |-> overall[k].avg_ppg]]]

generate_draft_recommendations(t, current_season) ==
    LET recent_data == SelectSeq(t, LAMBDA r : InWindow(r.season, current_season))
    IN  [pos \in PositionSet |-> DraftPositionRecommendations(recent_data, pos)]

\* ------------------------------------------------------------ aggregator
MinGames == 16
ChartMinGames == 8
ComparisonMinGames == 8
TopConsistency == 5
TopChartPlayers == 20
MaxOptions == 50

\* the float a positive number divided by zero gives
Inf == [kind |-> "inf", val |-> 0]
IsInf(x) == x.kind = "inf"

FAdd(a, b) == IF IsNum(a) /\ IsNum(b) THEN Num(a.val + b.val) ELSE NaN

\* Series.min() and Series.max(): NaN cells are skipped, NaN when none is left
MinOf(s) ==
    LET v == Vals(NonNull(s))
    IN  IF v = <<>> THEN NaN
        ELSE Num(v[CHOOSE i \in DOMAIN v : \A j \in DOMAIN v : v[i] <= v[j]])

MaxOf(s) ==
    LET v == Vals(NonNull(s))
    IN  IF v = <<>> THEN NaN
        ELSE Num(v[CHOOSE i \in DOMAIN v : \A j \in DOMAIN v : v[i] >= v[j]])

\* 'count': the number of cells of the column that are not null
Count(s) == Len(NonNull(s))

\* the sequence of the display names of a table, in the order groupby sorts them
GroupNames(t) ==
    LET names == {t[i].player_display_name : i \in DOMAIN t}
    IN  SortSet(names, [n \in names |-> NameRank(n)])

\* groupby('player_display_name').agg({'fantasy_points_ppr':
\*     ['mean', 'std', 'count', 'min', 'max']}), one row per display name
player_consistency(pos_data) ==
    LET order == GroupNames(pos_data)
    IN  [k \in DOMAIN order |->
            LET rows == SelectSeq(pos_data, LAMBDA r : r.player_display_name = order[k])
                points == PointsOf(rows)
            IN  [player |-> order[k],
                 avg_points |-> Mean(points),
                 std_points |-> Std(points),
                 games |-> Count(points),
                 min_points |-> MinOf(points),
                 max_points |-> MaxOf(points)]]

\* a faulty variant: no player is filtered out
AnyGames(stats, min_games) == stats

\* player_consistency[player_consistency['games'] >= 16]
AtLeastGames(stats, min_games) == SelectSeq(stats, LAMBDA r : r.games >= min_games)

\* std / avg in float arithmetic: a deviation is never negative, so a zero
\* mean gives inf under a positive deviation and NaN under a zero one
Cv(std, avg) ==
    IF IsNum(std) /\ IsNum(avg)
    THEN IF avg.val = 0
         THEN (IF std.val = 0 THEN NaN ELSE Inf)
         ELSE Num((std.val * Scale) \div avg.val)
    ELSE NaN

\* the cv, floor and ceiling columns
WithConsistency(m) ==
    [player |-> m.player, avg_points |-> m.avg_points, std_points |-> m.std_points,
     games |-> m.games, min_points |-> m.min_points, max_points |-> m.max_points,
     cv |-> Cv(m.std_points, m.avg_points),
     floor |-> FSub(m.avg_points, m.std_points),
     ceiling |-> FAdd(m.avg_points, m.std_points)]

\* the order of nsmallest on cv: smaller first, inf after every number, NaN last
CvLess(a, b) ==
    CASE IsNaN(a) -> FALSE
      [] IsNaN(b) -> TRUE
      [] IsInf(a) -> FALSE
      [] IsInf(b) -> TRUE
      [] OTHER -> a.val < b.val

\* nsmallest(5, 'cv'), keep='first'
MostConsistent(analysed) ==
    Take(StableSort(analysed,
                    [i, j \in DOMAIN analysed |-> CvLess(analysed[i].cv, analysed[j].cv)]),
         TopConsistency)

\* player_consistency['cv'].mean(): NaN cells are skipped, an inf cell makes
\* the sum and the mean inf
AvgCv(analysed) ==
    LET cvs == [k \in DOMAIN analysed |-> analysed[k].cv]
        known == SelectSeq(cvs, LAMBDA c : ~IsNaN(c))
        finite == SelectSeq(cvs, IsNum)
    IN  IF known = <<>> THEN NaN
        ELSE IF Len(finite) < Len(known) THEN Inf
        ELSE Num(Sum(Vals(finite)) \div Len(finite))

\* the entry of one position (present: some player has the games and the
\* position an entry)
ConsistencyPositionInsights(t, pos) ==
    LET pos_data == SelectSeq(t, LAMBDA r : r.position = pos)
        enough == AtLeastGames(player_consistency(pos_data), MinGames)
        analysed == [k \in DOMAIN enough |-> WithConsistency(enough[k])]
    IN  IF analysed = <<>> THEN [present |-> FALSE]
        ELSE [present |-> TRUE,
              player_consistency |-> analysed,
              avg_cv |-> AvgCv(analysed),
              most_consistent |-> MostConsistent(analysed),
              highest_ceiling |-> NLargest(analysed, TopConsistency, "ceiling"),
              highest_floor |-> NLargest(analysed, TopConsistency, "floor"),
              total_players_analyzed |-> Len(analysed)]

calculate_consistency_insights(t) ==
    [pos \in PositionSet |-> ConsistencyPositionInsights(t, pos)]

\* ------------------------------------------------------------ outcomes of a call
Returned(x) == [run |-> TRUE, raised |-> FALSE, out |-> x]
Raised(error, what) == [run |-> TRUE, raised |-> TRUE, error |-> error, what |-> what]

\* ------------------------------------------------------------ consistency chart
\* groupby('player_display_name').agg({'fantasy_points_ppr': ['mean', 'std', 'count']})
chart_consistency_data(pos_data) ==
    LET order == GroupNames(pos_data)
    IN  [k \in DOMAIN order |->
            LET rows == SelectSeq(pos_data, LAMBDA r : r.player_display_name = order[k])
                points == PointsOf(rows)
            IN  [player |-> order[k],
                 avg_points |-> Mean(points),
                 std_points |-> Std(points),
                 games |-> Count(points)]]

\* the chart of one position: the players with 8 games, their cv, and the 20
\* of them with the largest mean, which are plotted; the marker scale is
\* max(top_players['games']), and max() of no value raises ValueError
create_consistency_chart(t, position) ==
    LET pos_data == SelectSeq(t, LAMBDA r : r.position = position)
        enough == AtLeastGames(chart_consistency_data(pos_data), ChartMinGames)
        consistency_data ==
            [k \in DOMAIN enough |->
                [player |-> enough[k].player, avg_points |-> enough[k].avg_points,
                 std_points |-> enough[k].std_points, games |-> enough[k].games,
                 cv |-> Cv(enough[k].std_points, enough[k].avg_points)]]
        top_players == NLargest(consistency_data, TopChartPlayers, "avg_points")
    IN  IF top_players = <<>> THEN Raised("ValueError", "max")
        ELSE Returned([consistency_data |-> consistency_data,
                       top_players |-> top_players])

\* ------------------------------------------------------------ player comparison
\* the consistency tab: groupby('player_display_name').agg({'fantasy_points_ppr':
\* ['mean', 'std', 'min', 'max', 'count']}) of the table it is given, the rows
\* of the chosen players, and their cv, floor and ceiling
create_consistency_comparison(t, players) ==
    LET order == GroupNames(t)
        stats == [k \in DOMAIN order |->
                    LET rows == SelectSeq(t, LAMBDA r : r.player_display_name = order[k])
                        points == PointsOf(rows)
                    IN  [player |-> order[k],
                         avg |-> Mean(points),
                         std |-> Std(points),
                         min |-> MinOf(points),
                         max |-> MaxOf(points),
                         games |-> Count(points)]]
        chosen == SelectSeq(stats, LAMBDA r : InSeq(r.player, players))
    IN  [k \in DOMAIN chosen |->
            [player |-> chosen[k].player, avg |-> chosen[k].avg, std |-> chosen[k].std,
             min |-> chosen[k].min, max |-> chosen[k].max, games |-> chosen[k].games,
             cv |-> Cv(chosen[k].std, chosen[k].avg),
             floor |-> FSub(chosen[k].avg, chosen[k].std),
             ceiling |-> FAdd(chosen[k].avg, chosen[k].std)]]

\* groupby('player_display_name').agg({'fantasy_points_ppr':
\* ['sum', 'mean', 'std', 'count'], 'recent_team': 'last'}); the team, which
\* only goes into the label of the option, is left out
player_stats(filtered_data) ==
    LET order == GroupNames(filtered_data)
    IN  [k \in DOMAIN order |->
            LET rows == SelectSeq(filtered_data,
                                  LAMBDA r : r.player_display_name = order[k])
                points == PointsOf(rows)
            IN  [player |-> order[k],
                 total_points |-> Num(SumPoints(rows)),
                 avg_points |-> Mean(points),
                 std_points |-> Std(points),
                 games |-> Count(points)]]

MinSelected == 2
MaxSelected == 5

\* create_comparison_table never gets to its pivot: the table it is given
\* has no games column for agg to sum (KeyError), and with one, the
\* aggregate has six columns (two keys, sum, mean and count of the points,
\* and the games) for the five names that are assigned to it (ValueError)
create_comparison_table(t, players) ==
    IF "games" \notin Columns(t) THEN Raised("KeyError", "games")
    ELSE Raised("ValueError", "Length mismatch")

\* the candidates of the page: the players with 8 games in the filtered
\* rows, by total points (sort_values: a sum is never NaN; equal totals keep
\* their order in lists this short), the first 50
player_options(filtered_data) ==
    LET enough == AtLeastGames(player_stats(filtered_data), ComparisonMinGames)
        sorted == StableSort(enough,
                     [i, j \in DOMAIN enough |->
                         enough[i].total_points.val > enough[j].total_points.val])
    IN  Take(sorted, MaxOptions)

\* a faulty variant: every selected player is kept
AllSelected(selected_players) == selected_players

\* selected_players[:5] of a selection of more than 5
FirstSelected(selected_players) == Take(selected_players, MaxSelected)

\* the comparison page for a position, a set of seasons and the options the
\* user selected, in the order of selection: what the page has built when
\* the function ends (status), the rows that go to the comparison tabs, of
\* which the consistency tab is modelled, and how the call of
\* create_comparison_table ended; an option is the row of player_stats its
\* label is made from (the label is cut back to the name at ' (')
create_player_comparison_interface(t, position_filter, selected_seasons, selected_players) ==
    LET filtered_data ==
            SelectSeq(t, LAMBDA r : r.position = position_filter
                                    /\ r.season \in selected_seasons)
        kept == FirstSelected(selected_players)
        player_names == [k \in DOMAIN kept |-> kept[k].player]
        comparison_data ==
            SelectSeq(filtered_data, LAMBDA r : InSeq(r.player_display_name, player_names))
    IN  IF filtered_data = <<>> THEN [status |-> "no_data"]
        ELSE IF Len(selected_players) < MinSelected
        THEN [status |-> "too_few",
              player_options |-> player_options(filtered_data),
              selected_players |-> selected_players]
        ELSE [status |-> "compared",
              player_options |-> player_options(filtered_data),
              selected_players |-> selected_players,
              player_names |-> player_names,
              comparison_data |-> comparison_data,
              consistency_data |->
                  create_consistency_comparison(comparison_data, player_names),
              comparison_table |-> create_comparison_table(comparison_data, player_names)]

\* how the call of the page ends: an exception of create_comparison_table,
\* its last call, leaves the function (out: what was built by then)
PageOutcome(page) ==
    IF page.status = "compared" /\ page.comparison_table.raised
    THEN [run |-> TRUE, raised |-> TRUE, error |-> page.comparison_table.error,
          what |-> page.comparison_table.what, out |-> page]
    ELSE Returned(page)

\* ------------------------------------------------------------ weekly trends
PlayoffWeeks == {15, 16, 17}
RegularWeeks == 1..14
TopPlayoff == 5

\* pos_data.groupby('week')['fantasy_points_ppr'].mean()
weekly_avg(pos_data) ==
    [w \in {pos_data[i].week : i \in DOMAIN pos_data} |->
        Mean(PointsOf(SelectSeq(pos_data, LAMBDA r : r.week = w)))]

\* Series.idxmax() / Series.idxmin() of a Series that is not empty: the first
\* week, in week order, with the largest (smallest) mean, NaN means skipped;
\* NaN when every mean is NaN (pandas 1 and 2)
IdxMax(avg) ==
    LET known == {w \in DOMAIN avg : IsNum(avg[w])}
        best == {w \in known : \A v \in known : avg[w].val >= avg[v].val}
    IN  IF known = {} THEN NaN
        ELSE Num(CHOOSE w \in best : \A v \in best : w <= v)

IdxMin(avg) ==
    LET known == {w \in DOMAIN avg : IsNum(avg[w])}
        best == {w \in known : \A v \in known : avg[w].val <= avg[v].val}
    IN  IF known = {} THEN NaN
        ELSE Num(CHOOSE w \in best : \A v \in best : w <= v)

\* pos_data['week'].corr(pos_data['fantasy_points_ppr']) against 0.1 and
\* -0.1: Pearson's r over the rows with points is cov / sqrt(vx * vy), NaN
\* (so 'stable') when there are fewer than two rows or no variation
SeasonalTrend(pos_data) ==
    LET rows == SelectSeq(pos_data, LAMBDA r : IsNum(r.fantasy_points_ppr))
        n == Len(rows)
        x == [i \in DOMAIN rows |-> rows[i].week]
        y == [i \in DOMAIN rows |-> rows[i].fantasy_points_ppr.val]
        xy == [i \in DOMAIN rows |-> x[i] * y[i]]
        cov == n * Sum(xy) - Sum(x) * Sum(y)
        vx == n * Sum(Squares(x)) - Sum(x) * Sum(x)
        vy == n * Sum(Squares(y)) - Sum(y) * Sum(y)
    IN  IF n < 2 \/ vx = 0 \/ vy = 0 THEN "stable"
        ELSE IF cov > 0 /\ cov * cov > (vx * vy) \div (10 * 10) THEN "increasing"
        ELSE IF cov < 0 /\ cov * cov > (vx * vy) \div (10 * 10) THEN "decreasing"
        ELSE "stable"

\* the mean of the rows of the weeks of a set
WeeksAvg(rows, weeks) == Mean(PointsOf(SelectSeq(rows, LAMBDA r : r.week \in weeks)))

\* groupby('player_display_name').apply(playoff mean - regular mean)
\* .sort_values(ascending=False), NaN last
player_playoff_performance(pos_data) ==
    LET order == GroupNames(pos_data)
        perf == [k \in DOMAIN order |->
                    LET rows == SelectSeq(pos_data,
                                          LAMBDA r : r.player_display_name = order[k])
                    IN  [player |-> order[k],
                         boost |-> FSub(WeeksAvg(rows, PlayoffWeeks),
                                        WeeksAvg(rows, RegularWeeks))]]
    IN  StableSort(perf, [i, j \in DOMAIN perf |-> Larger(perf[i].boost, perf[j].boost)])

TrendsPositionInsights(t, pos) ==
    LET pos_data == SelectSeq(t, LAMBDA r : r.position = pos)
        avg == weekly_avg(pos_data)
    IN  [weekly_averages |-> avg,
         peak_week |-> IdxMax(avg),
         valley_week |-> IdxMin(avg),
         seasonal_trend |-> SeasonalTrend(pos_data),
         playoff_boost |-> FSub(WeeksAvg(pos_data, PlayoffWeeks),
                                WeeksAvg(pos_data, RegularWeeks)),
         top_playoff_performers |-> Take(player_playoff_performance(pos_data), TopPlayoff)]

\* the positions are gone through in order, and idxmax() of the empty Series
\* of a position without rows raises ValueError
calculate_weekly_trends_insights(t) ==
    IF \E pos \in PositionSet : \A i \in DOMAIN t : t[i].position # pos
    THEN Raised("ValueError", "idxmax")
    ELSE Returned([pos \in PositionSet |-> TrendsPositionInsights(t, pos)])

\* ------------------------------------------------------------ dicts
\* an entry is put into a dict (insights[position] = ...), or a file into a directory
WithEntry(insights, pos, entry) ==
    [p \in DOMAIN insights \cup {pos} |-> IF p = pos THEN entry ELSE insights[p]]

\* ------------------------------------------------------------ required columns
\* the table without one of its columns
DropColumn(t, c) == [i \in DOMAIN t |-> [f \in DOMAIN t[i] \ {c} |-> t[i][f]]]

Computations == {"rookie", "consistency", "breakout", "value", "trends", "draft"}

\* the columns a computation reads, in the order in which it first reads
\* them (for the weekly trends: up to the idxmax() of the first position)
RequiredColumns(fn) ==
    CASE fn = "rookie" ->
             <<"player_id", "season", "position", "fantasy_points_ppr",
               "player_display_name", "week">>
      [] fn = "consistency" -> <<"position", "player_display_name", "fantasy_points_ppr">>
      [] fn = "breakout" ->
             <<"player_id", "season", "player_display_name", "position",
               "fantasy_points_ppr">>
      [] fn = "value" ->
             <<"player_id", "player_display_name", "position", "season",
               "fantasy_points_ppr">>
      [] fn = "trends" -> <<"position", "week", "fantasy_points_ppr">>
      [] fn = "draft" ->
             <<"season", "position", "player_display_name", "fantasy_points_ppr">>

\* the first of them that the table lacks ("" when it has them all)
FirstMissing(t, needed) ==
    LET missing == SelectSeq(needed, LAMBDA c : c \notin Columns(t))
    IN  IF missing = <<>> THEN "" ELSE Head(missing)

\* what a call of a computation on a table ends in: pandas raises KeyError
\* at the first column it does not find, otherwise the function runs
Outcome(fn, t) ==
    IF FirstMissing(t, RequiredColumns(fn)) # ""
    THEN Raised("KeyError", FirstMissing(t, RequiredColumns(fn)))
    ELSE CASE fn = "rookie" -> Returned(calculate_rookie_insights(t))
           [] fn = "consistency" -> Returned(calculate_consistency_insights(t))
           [] fn = "breakout" -> Returned(calculate_breakout_insights(t))
           [] fn = "value" -> Returned(calculate_positional_value_insights(t))
           [] fn = "trends" ->
                  IF \A i \in DOMAIN t : t[i].position # Positions[1]
                  THEN Raised("ValueError", "idxmax")
                  ELSE IF "player_display_name" \notin Columns(t)
                  THEN Raised("KeyError", "player_display_name")
                  ELSE calculate_weekly_trends_insights(t)
           [] fn = "draft" -> Returned(generate_draft_recommendations(t, CurrentSeason))

\* ------------------------------------------------------------ insights summary
\* the three computations are called one after the other, with nothing
\* around them that catches an exception: the first that raises ends the
\* function; then each tab goes through the positions that have an entry
display_insights_summary(t) ==
    LET rookie_insights == Outcome("rookie", t)
        consistency_insights == Outcome("consistency", t)
        breakout_insights == Outcome("breakout", t)
    IN  IF rookie_insights.raised THEN rookie_insights
        ELSE IF consistency_insights.raised THEN consistency_insights
        ELSE IF breakout_insights.raised THEN breakout_insights
        ELSE Returned(
                 [rookie_insights |-> rookie_insights.out.insights,
                  consistency_insights |-> consistency_insights.out,
                  breakout_insights |-> breakout_insights.out.insights,
                  rookie_tab |-> PositionSet,
                  consistency_tab |->
                      {pos \in PositionSet : consistency_insights.out[pos].present},
                  breakout_tab |->
                      {pos \in PositionSet : breakout_insights.out.insights[pos].present}])

\* ------------------------------------------------------------ collection script
\* the rows of the remote datasets that the script reads: a weekly
\* observation, a team and a roster entry, with the columns the
\* consolidation goes by (college stands for height, weight and college)
WeeklyRow(id, pos, team, season, week) ==
    [player_id |-> id, position |-> pos, recent_team |-> team,
     season |-> season, week |-> week]

TeamRow(abbr, name) == [team_abbr |-> abbr, team_name |-> name]

RosterRow(season, team, id, pos, college) ==
    [season |-> season, team |-> team, player_id |-> id, position |-> pos,
     college |-> college]

\* a cell the left merge finds no match for
Null == "NaN"

\* data[data['position'].isin(fantasy_positions)].copy()
FantasyOnly(data) == SelectSeq(data, LAMBDA r : r.position \in PositionSet)

RECURSIVE Concat(_)
Concat(ss) == IF ss = <<>> THEN <<>> ELSE Head(ss) \o Concat(Tail(ss))

\* team_data[['team_abbr', 'team_name', ...]] with team_abbr renamed to team
team_info(team_data) ==
    [k \in DOMAIN team_data |->
        [team |-> team_data[k].team_abbr, team_name |-> team_data[k].team_name]]

\* weekly_fantasy.merge(team_info, left_on='recent_team', right_on='team',
\* how='left'): the rows of the left frame in their order, each once for
\* every row of the right frame with its key, or once with empty cells
MergeTeams(weekly_fantasy, info) ==
    Concat([i \in DOMAIN weekly_fantasy |->
        LET l == weekly_fantasy[i]
            found == SelectSeq(info, LAMBDA r : r.team = l.recent_team)
        IN  IF found = <<>>
            THEN <<[player_id |-> l.player_id, position |-> l.position,
                    recent_team |-> l.recent_team, season |-> l.season,
                    week |-> l.week, team |-> Null, team_name |-> Null]>>
            ELSE [k \in DOMAIN found |->
                    [player_id |-> l.player_id, position |-> l.position,
                     recent_team |-> l.recent_team, season |-> l.season,
                     week |-> l.week, team |-> found[k].team,
                     team_name |-> found[k].team_name]]])

\* roster_fantasy[['season', 'team', 'player_id', 'height', 'weight', 'college']]
roster_info(roster_fantasy) ==
    [k \in DOMAIN roster_fantasy |->
        [season |-> roster_fantasy[k].season, team |-> roster_fantasy[k].team,
         player_id |-> roster_fantasy[k].player_id,
         college |-> roster_fantasy[k].college]]

\* weekly_consolidated.merge(roster_info, on=['season', 'player_id'],
\* how='left', suffixes=('', '_roster'))
MergeRosters(weekly_consolidated, info) ==
    Concat([i \in DOMAIN weekly_consolidated |->
        LET l == weekly_consolidated[i]
            found == SelectSeq(info, LAMBDA r : r.season = l.season
                                                /\ r.player_id = l.player_id)
        IN  IF found = <<>>
            THEN <<[player_id |-> l.player_id, position |-> l.position,
                    recent_team |-> l.recent_team, season |-> l.season,
                    week |-> l.week, team |-> l.team, team_name |-> l.team_name,
                    team_roster |-> Null, college |-> Null]>>
            ELSE [k \in DOMAIN found |->
                    [player_id |-> l.player_id, position |-> l.position,
                     recent_team |-> l.recent_team, season |-> l.season,
                     week |-> l.week, team |-> l.team, team_name |-> l.team_name,
                     team_roster |-> found[k].team, college |-> found[k].college]]])

\* sample_years = [2022, 2023, 2024]
SampleYears == {2022, 2023, 2024}

\* the numbered steps of collect_historical_data, in their order, and the
\* files a step writes when it completes
CollectionSteps ==
    <<"weekly", "seasonal", "teams", "rosters", "analysis", "consolidate",
      "QB", "RB", "WR", "TE", "summary">>

FilesOf(step) ==
    CASE step = "weekly" -> {"weekly_fantasy_data.csv"}
      [] step = "seasonal" -> {"seasonal_data.csv"}
      [] step = "teams" -> {"team_data.csv"}
      [] step = "rosters" -> {"roster_fantasy_data.csv"}
      [] step = "analysis" -> {}
      [] step = "consolidate" -> {"consolidated_fantasy_data.csv"}
      [] step = "QB" -> {"qb_data.csv"}
      [] step = "RB" -> {"rb_data.csv"}
      [] step = "WR" -> {"wr_data.csv"}
      [] step = "TE" -> {"te_data.csv"}
      [] step = "summary" -> {"data_summary.json"}
      [] step = "sample" -> {"sample_fantasy_data.csv"}

\* the step after a step (the script returns after the summary)
NextStep(step) ==
    LET k == CHOOSE i \in DOMAIN CollectionSteps : CollectionSteps[i] = step
    IN  IF k = Len(CollectionSteps) THEN "returned" ELSE CollectionSteps[k + 1]

\* ------------------------------------------------------------ state machine
NotRun == [run |-> FALSE]

\* the collection script has not been started
NoSource == [weekly |-> <<>>, team |-> <<>>, roster |-> <<>>]

NoScript ==
    /\ nfl = NoSource
    /\ pc = "idle"
    /\ frames = <<>>
    /\ files = <<>>
    /\ success = "none"
    /\ steps = <<>>

NoOutput ==
    /\ rookie_out = NotRun
    /\ chart_out = NotRun
    /\ breakout_out = NotRun
    /\ value_out = NotRun
    /\ draft_out = NotRun
    /\ consistency_out = NotRun
    /\ consistency_chart_out = NotRun
    /\ comparison_out = NotRun
    /\ interface_out = NotRun
    /\ trends_out = NotRun
    /\ summary_out = NotRun
    /\ repeat_out = NotRun
    /\ subset_out = NotRun

\* a total order of the rows: the table is read from a file the collection
\* script wrote; no computation below depends on the order of its rows (each
\* starts with a groupby, which sorts by key), so one order stands for all
RowRank(r) ==
    ((((r.player_id * 64 + NameRank(r.player_display_name)) * 4 + PosRank(r.position)) * 8
        + (r.season - 2018)) * 32 + r.week) * 1024
     + (IF IsNum(r.fantasy_points_ppr) THEN r.fantasy_points_ppr.val + 100 ELSE 0)

\* one more observation row is read into the table
LoadRow(rows) ==
    /\ NoOutput
    /\ Len(df) < MaxRows
    /\ \E r \in rows :
          /\ (IF df = <<>> THEN TRUE ELSE RowRank(df[Len(df)]) <= RowRank(r))
          /\ df' = Append(df, r)
    /\ UNCHANGED <<rookie_out, chart_out, breakout_out, value_out, draft_out,
                 consistency_out, consistency_chart_out, comparison_out, interface_out,
                 trends_out, summary_out, repeat_out, snapshot, subset_out, collect_vars>>

\* the rows the rookie computations are run on: player 1 has played at
\* two positions, player 2 at one
RookieRows ==
    {Row(1, Names[1], pos, season, week, Num(pts)) :
        pos \in {"QB", "RB"}, season \in {2022, 2023, 2024}, week \in {1, 5}, pts \in {0, 10}}
    \cup
    {Row(2, Names[2], "RB", season, week, Num(pts)) :
        season \in {2022, 2023, 2024}, week \in {1, 5}, pts \in {0, 10}}

LoadRookieRow == LoadRow(RookieRows)

\* a faulty variant: the labels are written into the table of the caller
CalculateRookieInsightsInPlace ==
    /\ rookie_out = NotRun
    /\ rookie_out' = Outcome("rookie", df)
    /\ df' = IF rookie_out'.raised THEN df
             ELSE [i \in DOMAIN df |->
                      [f \in DOMAIN df[i] \cup {"rookie_season", "is_rookie"} |->
                          IF f \in {"rookie_season", "is_rookie"}
                          THEN rookie_out'.out.df_with_rookie[i][f]
                          ELSE df[i][f]]]
    /\ UNCHANGED <<chart_out, breakout_out, value_out, draft_out,
                   consistency_out, consistency_chart_out, comparison_out,
                   interface_out, trends_out, summary_out, repeat_out,
                   snapshot, subset_out, collect_vars>>

CalculateRookieInsights ==
    /\ rookie_out = NotRun
    /\ rookie_out' = Outcome("rookie", df)
    /\ UNCHANGED <<df, chart_out, breakout_out, value_out, draft_out,
                 consistency_out, consistency_chart_out, comparison_out, interface_out,
                 trends_out, summary_out, repeat_out, snapshot, subset_out, collect_vars>>

CreateRookieAnalysisChart ==
    /\ chart_out = NotRun
    /\ chart_out' = [run |-> TRUE, out |-> create_rookie_analysis_chart(df)]
    /\ UNCHANGED <<df, rookie_out, breakout_out, value_out, draft_out,
                 consistency_out, consistency_chart_out, comparison_out, interface_out,
                 trends_out, summary_out, repeat_out, snapshot, subset_out, collect_vars>>

InitEmpty ==
    /\ df = <<>>
    /\ NoOutput
    /\ snapshot = <<>>
    /\ NoScript

NextRookie == LoadRookieRow \/ CalculateRookieInsights \/ CreateRookieAnalysisChart

SpecRookie == InitEmpty /\ [][NextRookie]_vars

\* the rows the trend detector is run on: whole-season rows (week 1) of two
\* players, the first of whom has played at two positions; a null cell, a
\* zero and two totals 60 points apart
BreakoutRows ==
    {Row(1, Names[1], pos, season, 1, pts) :
        pos \in {"QB", "RB"}, season \in {2022, 2023, 2024},
        pts \in {NaN, Num(0), Num(100), Num(160)}}
    \cup
    {Row(2, Names[2], "RB", season, 1, pts) :
        season \in {2022, 2023, 2024}, pts \in {NaN, Num(0), Num(100), Num(160)}}

LoadBreakoutRow == LoadRow(BreakoutRows)

CalculateBreakoutInsights ==
    /\ breakout_out = NotRun
    /\ breakout_out' = Outcome("breakout", df)
    /\ UNCHANGED <<df, rookie_out, chart_out, value_out, draft_out,
                 consistency_out, consistency_chart_out, comparison_out, interface_out,
                 trends_out, summary_out, repeat_out, snapshot, subset_out, collect_vars>>

NextBreakout == LoadBreakoutRow \/ CalculateBreakoutInsights

SpecBreakout == InitEmpty /\ [][NextBreakout]_vars

\* tables made to meet the thresholds: one player with two season totals
\* taken from a grid of tens, and n players at one position whose totals all
\* rise by the same amount
MinTotalTens == 10
MaxTotalTens == 50
MaxTrendPlayers == 12

TwoSeasonTable(prev, cur) ==
    <<Row(1, Names[1], "RB", 2023, 1, Num(prev)), Row(1, Names[1], "RB", 2024, 1, Num(cur))>>

RisingTable(n, rise) ==
    [k \in 1..(2 * n) |->
        LET id == (k + 1) \div 2
        IN  IF k % 2 = 1 THEN Row(id, Names[id], "WR", 2023, 1, Num(100 + id))
            ELSE Row(id, Names[id], "WR", 2024, 1, Num(100 + id + rise))]

ThresholdTables ==
    {TwoSeasonTable(10 * a, 10 * b) :
        a \in (-MinTotalTens)..MaxTotalTens, b \in (-MinTotalTens)..MaxTotalTens}
    \cup
    {RisingTable(n, rise) : n \in 1..MaxTrendPlayers, rise \in {-80, 20, 80}}

InitThreshold ==
    /\ df \in ThresholdTables
    /\ NoOutput
    /\ snapshot = <<>>
    /\ NoScript

SpecThreshold == InitThreshold /\ [][CalculateBreakoutInsights]_vars

\* tables for the value ranker: n players of one position in season 2024,
\* one row each, with totals that are all different and out of order, or
\* tie in threes, or fall from 40; with extra, the first player also has a
\* second 2024 row and a 2023 row
MaxValuePlayers == 30

PatternPoints(pattern, i) ==
    CASE pattern = 1 -> (i * 7) % 31
      [] pattern = 2 -> i % 3
      [] OTHER -> 40 - 2 * i

ValueTable(n, pos, pattern, extra) ==
    [i \in 1..n |-> Row(i, Names[i], pos, 2024, 1, Num(PatternPoints(pattern, i)))]
    \o (IF extra
        THEN <<Row(1, Names[1], pos, 2024, 2, Num(5)), Row(1, Names[1], pos, 2023, 1, Num(9))>>
        ELSE <<>>)

ValueTables ==
    {ValueTable(n, pos, pattern, extra) :
        n \in 1..MaxValuePlayers, pos \in PositionSet, pattern \in 1..3, extra \in BOOLEAN}

InitValue ==
    /\ df \in ValueTables
    /\ NoOutput
    /\ snapshot = <<>>
    /\ NoScript

\* a faulty variant: a vbd column is written into the table of the caller
CalculatePositionalValueInsightsInPlace ==
    /\ value_out = NotRun
    /\ value_out' = Outcome("value", df)
    /\ df' = IF value_out'.raised THEN df
             ELSE [i \in DOMAIN df |->
                      [f \in DOMAIN df[i] \cup {"vbd"} |->
                          IF f = "vbd"
                          THEN Vbd(df[i].fantasy_points_ppr,
                                   value_out'.out[df[i].season][df[i].position]
                                       .replacement_value)
                          ELSE df[i][f]]]
    /\ UNCHANGED <<rookie_out, chart_out, breakout_out, draft_out,
                   consistency_out, consistency_chart_out, comparison_out,
                   interface_out, trends_out, summary_out, repeat_out,
                   snapshot, subset_out, collect_vars>>

CalculatePositionalValueInsights ==
    /\ value_out = NotRun
    /\ value_out' = Outcome("value", df)
    /\ UNCHANGED <<df, rookie_out, chart_out, breakout_out, draft_out,
                 consistency_out, consistency_chart_out, comparison_out, interface_out,
                 trends_out, summary_out, repeat_out, snapshot, subset_out, collect_vars>>

SpecValue == InitValue /\ [][CalculatePositionalValueInsights]_vars

\* tables for the recommendation scorer: n players of one position; player
\* i has a level of 10 + i points and a spread of (2i + spread) % 5, and
\* (i + shift) % 6 picks the rows it has around season 2024
MaxDraftPlayers == 14

PlayerRows(i, pos, shift, spread) ==
    LET m == 10 + i
        d == (2 * i + spread) % 5
        kind == (i + shift) % 6
        R(season, week, pts) == Row(i, Names[i], pos, season, week, pts)
    IN  CASE kind = 0 -> <<R(2022, 1, Num(m - d)), R(2023, 1, Num(m)), R(2024, 1, Num(m + d))>>
          [] kind = 1 -> <<R(2023, 1, Num(m - d)), R(2024, 1, Num(m + d))>>
          [] kind = 2 -> <<R(2024, 1, Num(m - d)), R(2024, 2, Num(m + d))>>
          [] kind = 3 -> <<R(2022, 1, Num(m - d)), R(2023, 1, NaN), R(2024, 1, Num(m + d))>>
          [] kind = 4 -> <<R(2021, 1, Num(m + 20)), R(2024, 1, Num(m))>>
          [] OTHER -> <<R(2023, 1, NaN), R(2024, 1, Num(m))>>

RECURSIVE DraftTable(_, _, _, _)
DraftTable(n, pos, shift, spread) ==
    IF n = 0 THEN <<>>
    ELSE DraftTable(n - 1, pos, shift, spread) \o PlayerRows(n, pos, shift, spread)

DraftTables ==
    {DraftTable(n, pos, shift, spread) :
        n \in 1..MaxDraftPlayers, pos \in PositionSet, shift \in 0..5, spread \in 0..4}

InitDraft ==
    /\ df \in DraftTables
    /\ NoOutput
    /\ snapshot = <<>>
    /\ NoScript

GenerateDraftRecommendations ==
    /\ draft_out = NotRun
    /\ draft_out' = Outcome("draft", df)
    /\ UNCHANGED <<df, rookie_out, chart_out, breakout_out, value_out,
                 consistency_out, consistency_chart_out, comparison_out, interface_out,
                 trends_out, summary_out, repeat_out, snapshot, subset_out, collect_vars>>

SpecDraft == InitDraft /\ [][GenerateDraftRecommendations]_vars

\* tables for the consistency computations: n players of one position in
\* season 2024; player i has a level of 10 + i points and a swing of
\* 1 + i % 3, and (i + shift) % 9 picks its rows: 16 games; 16 rows with a
\* null cell; one row; 16 games of 0 points; 16 games swinging around 0;
\* 8 games; 17 rows with a null cell; 16 games under the display name of the
\* player before; 8 rows with a null cell
MaxConsistencyPlayers == 9
MaxPicked == 6

ConsistencyPlayerRows(i, pos, shift) ==
    LET m == 10 + i
        d == 1 + (i % 3)
        kind == (i + shift) % 9
        name == IF kind = 7 /\ i > 1 THEN Names[i - 1] ELSE Names[i]
        swing == [w \in 1..17 |-> IF w % 2 = 1 THEN -d ELSE d]
        R(week, pts) == Row(i, name, pos, 2024, week, pts)
    IN  CASE kind = 1 -> [w \in 1..16 |-> R(w, IF w = 3 THEN NaN ELSE Num(m + swing[w]))]
          [] kind = 2 -> <<R(1, Num(m))>>
          [] kind = 3 -> [w \in 1..16 |-> R(w, Num(0))]
          [] kind = 4 -> [w \in 1..16 |-> R(w, Num(swing[w]))]
          [] kind = 5 -> [w \in 1..8 |-> R(w, Num(m + swing[w]))]
          [] kind = 6 -> [w \in 1..17 |-> R(w, IF w = 17 THEN NaN ELSE Num(m + swing[w]))]
          [] kind = 8 -> [w \in 1..8 |-> R(w, IF w = 2 THEN NaN ELSE Num(m + swing[w]))]
          [] OTHER -> [w \in 1..16 |-> R(w, Num(m + swing[w]))]

RECURSIVE ConsistencyTable(_, _, _)
ConsistencyTable(n, pos, shift) ==
    IF n = 0 THEN <<>>
    ELSE ConsistencyTable(n - 1, pos, shift) \o ConsistencyPlayerRows(n, pos, shift)

ConsistencyTables ==
    {ConsistencyTable(n, pos, shift) :
        n \in 1..MaxConsistencyPlayers, pos \in {"WR"}, shift \in 0..8}

InitConsistency ==
    /\ df \in ConsistencyTables
    /\ NoOutput
    /\ snapshot = <<>>
    /\ NoScript

CalculateConsistencyInsights ==
    /\ consistency_out = NotRun
    /\ consistency_out' = Outcome("consistency", df)
    /\ UNCHANGED <<df, rookie_out, chart_out, breakout_out, value_out,
                   draft_out, consistency_chart_out, comparison_out,
                   interface_out, trends_out, summary_out, repeat_out,
                   snapshot, subset_out, collect_vars>>

\* the chart is drawn for the position chosen on the page
CreateConsistencyChart ==
    /\ consistency_chart_out = NotRun
    /\ \E position \in PositionSet :
          consistency_chart_out' = create_consistency_chart(df, position)
    /\ UNCHANGED <<df, rookie_out, chart_out, breakout_out, value_out,
                   draft_out, consistency_out, comparison_out, interface_out,
                   trends_out, summary_out, repeat_out, snapshot, subset_out, collect_vars>>

\* the consistency tab, for every player of the table or all but the first
CreateConsistencyComparison ==
    /\ comparison_out = NotRun
    /\ \E players \in {GroupNames(df), Tail(GroupNames(df))} :
          comparison_out' = Returned(create_consistency_comparison(df, players))
    /\ UNCHANGED <<df, rookie_out, chart_out, breakout_out, value_out,
                   draft_out, consistency_out, consistency_chart_out,
                   interface_out, trends_out, summary_out, repeat_out,
                   snapshot, subset_out, collect_vars>>

\* sorted(df['season'].unique(), reverse=True), as a set
available_seasons(t) == {t[i].season : i \in DOMAIN t}

\* the first `picked` options of the list, selected from the top down or
\* from the bottom up
Selection(options, picked, upwards) ==
    LET first == Take(options, picked)
    IN  IF upwards THEN [k \in DOMAIN first |-> first[Len(first) + 1 - k]] ELSE first

CreatePlayerComparisonInterface ==
    /\ interface_out = NotRun
    /\ \E position_filter \in PositionSet, selected_seasons \in SUBSET available_seasons(df) :
          LET filtered_data ==
                  SelectSeq(df, LAMBDA r : r.position = position_filter
                                           /\ r.season \in selected_seasons)
              options == player_options(filtered_data)
          IN  \E picked \in 0..MaxPicked, upwards \in BOOLEAN :
                  interface_out' =
                      PageOutcome(create_player_comparison_interface(
                          df, position_filter, selected_seasons,
                          Selection(options, picked, upwards)))
    /\ UNCHANGED <<df, rookie_out, chart_out, breakout_out, value_out,
                   draft_out, consistency_out, consistency_chart_out,
                   comparison_out, trends_out, summary_out, repeat_out,
                   snapshot, subset_out, collect_vars>>

NextConsistency ==
    \/ CalculateConsistencyInsights
    \/ CreateConsistencyChart
    \/ CreateConsistencyComparison
    \/ CreatePlayerComparisonInterface

SpecConsistency == InitConsistency /\ [][NextConsistency]_vars

\* tables for the computations run side by side: player k plays at the
\* k-th position of a list of positions, with a 2023 row and two 2024 rows
\* (weeks 1 and 15); with second, one more player at the first position has
\* 2024 rows only; and the table may have lost a column
InsightPlayerRows(i, pos) ==
    <<Row(i, Names[i], pos, 2023, 1, Num(10 + i)),
      Row(i, Names[i], pos, 2024, 1, Num(80 + i)),
      Row(i, Names[i], pos, 2024, 15, Num(20 + 3 * i))>>

RECURSIVE InsightRows(_, _)
InsightRows(present, k) ==
    IF k = 0 THEN <<>>
    ELSE InsightRows(present, k - 1) \o InsightPlayerRows(k, present[k])

InsightTable(present, second, dropped) ==
    DropColumn(
        InsightRows(present, Len(present))
            \o (IF second /\ present # <<>>
                THEN <<Row(5, Names[5], present[1], 2024, 1, Num(30)),
                       Row(5, Names[5], present[1], 2024, 16, Num(50))>>
                ELSE <<>>),
        dropped)

InsightTables ==
    {InsightTable(present, second, dropped) :
        present \in {<<>>, <<"QB">>, <<"RB", "WR">>, <<"QB", "RB", "WR">>,
                     <<"QB", "RB", "WR", "TE">>},
        second \in BOOLEAN,
        dropped \in {"none", "week", "player_id", "player_display_name"}}

InitInsights ==
    /\ df \in InsightTables
    /\ NoOutput
    /\ snapshot = <<>>
    /\ NoScript

CalculateWeeklyTrendsInsights ==
    /\ trends_out = NotRun
    /\ trends_out' = Outcome("trends", df)
    /\ UNCHANGED <<df, rookie_out, chart_out, breakout_out, value_out,
                   draft_out, consistency_out, consistency_chart_out,
                   comparison_out, interface_out, summary_out, repeat_out,
                   snapshot, subset_out, collect_vars>>

DisplayInsightsSummary ==
    /\ summary_out = NotRun
    /\ summary_out' = display_insights_summary(df)
    /\ UNCHANGED <<df, rookie_out, chart_out, breakout_out, value_out,
                   draft_out, consistency_out, consistency_chart_out,
                   comparison_out, interface_out, trends_out, repeat_out,
                   snapshot, subset_out, collect_vars>>

\* what the first call of a computation has left
OutputOf(fn) ==
    CASE fn = "rookie" -> rookie_out
      [] fn = "consistency" -> consistency_out
      [] fn = "breakout" -> breakout_out
      [] fn = "value" -> value_out
      [] fn = "trends" -> trends_out
      [] fn = "draft" -> draft_out

\* a computation that has been called is called once more, on the table as
\* it is by then
CallAgain ==
    /\ repeat_out = NotRun
    /\ \E fn \in Computations :
          /\ OutputOf(fn).run
          /\ repeat_out' = [run |-> TRUE, fn |-> fn, out |-> Outcome(fn, df)]
    /\ UNCHANGED <<df, rookie_out, chart_out, breakout_out, value_out,
                   draft_out, consistency_out, consistency_chart_out,
                   comparison_out, interface_out, trends_out, summary_out,
                   snapshot, subset_out, collect_vars>>

NextInsights ==
    \/ CalculateRookieInsights
    \/ CalculateConsistencyInsights
    \/ CalculateBreakoutInsights
    \/ CalculatePositionalValueInsights
    \/ CalculateWeeklyTrendsInsights
    \/ GenerateDraftRecommendations
    \/ DisplayInsightsSummary
    \/ CallAgain

SpecInsights == InitInsights /\ [][NextInsights]_vars

\* the computations run side by side, as requests of a service would, each
\* in a thread of its own over the table df they were all given.  A step of
\* a thread is one read of df together with the local work that follows it,
\* up to the next read; while a thread runs, its variable holds its position
\* (the reads done) and its local frames, and afterwards how the call ended
Running(k, local) == [run |-> FALSE, at |-> k, local |-> local]

\* the reads a thread has done
ReadsDone(o) == IF o = NotRun THEN 0 ELSE o.at

\* KeyError at the first of the columns that the table lacks, else the step
Reading(t, columns, result) ==
    IF FirstMissing(t, columns) # ""
    THEN Raised("KeyError", FirstMissing(t, columns))
    ELSE result

\* df.merge(player_first_season, on='player_id', how='left') and is_rookie,
\* with the first seasons found by the read before (a player they do not
\* hold gets a missing rookie_season, here 0)
Labelled(t, first) ==
    [i \in DOMAIN t |->
        LET rookie_season ==
                IF t[i].player_id \in DOMAIN first THEN first[t[i].player_id] ELSE 0
        IN  [row |-> t[i],
             rookie_season |-> rookie_season,
             is_rookie |-> (t[i].season = rookie_season)]]

\* calculate_rookie_insights: df.groupby (line 15), then df.merge (line 18)
\* and the loop over the labelled frame
RookieStep ==
    /\ ~rookie_out.run
    /\ rookie_out' =
          IF ReadsDone(rookie_out) = 0
          THEN Reading(df, <<"player_id", "season">>,
                       Running(1, player_first_season(df)))
          ELSE Reading(df, RequiredColumns("rookie"),
                       LET lt == Labelled(df, rookie_out.local)
                       IN  Returned([df_with_rookie |-> lt,
                                     insights |-> [pos \in PositionSet |->
                                                      RookiePositionInsights(lt, pos)]]))
    /\ UNCHANGED <<df, chart_out, breakout_out, value_out, draft_out,
                   consistency_out, consistency_chart_out, comparison_out,
                   interface_out, trends_out, summary_out, repeat_out,
                   snapshot, subset_out, collect_vars>>

\* a faulty variant: the rows of the position replace the table of the caller
ConsistencyStepInPlace ==
    /\ ~consistency_out.run
    /\ LET position == Positions[ReadsDone(consistency_out) + 1]
           insights == IF consistency_out = NotRun THEN <<>> ELSE consistency_out.local
           found == WithEntry(insights, position,
                              ConsistencyPositionInsights(df, position))
       IN  /\ consistency_out' =
                 Reading(df, RequiredColumns("consistency"),
                         IF position = Positions[Len(Positions)]
                         THEN Returned(found)
                         ELSE Running(ReadsDone(consistency_out) + 1, found))
           /\ df' = IF consistency_out'.run /\ consistency_out'.raised THEN df
                    ELSE SelectSeq(df, LAMBDA r : r.position = position)
    /\ UNCHANGED <<rookie_out, chart_out, breakout_out, value_out, draft_out,
                   consistency_chart_out, comparison_out, interface_out,
                   trends_out, summary_out, repeat_out, snapshot, subset_out,
                   collect_vars>>

\* calculate_consistency_insights: df[df['position'] == position] (line 57)
\* and the entry of the position, once for each position
ConsistencyStep ==
    /\ ~consistency_out.run
    /\ LET position == Positions[ReadsDone(consistency_out) + 1]
           insights == IF consistency_out = NotRun THEN <<>> ELSE consistency_out.local
           found == WithEntry(insights, position,
                              ConsistencyPositionInsights(df, position))
       IN  consistency_out' =
               Reading(df, RequiredColumns("consistency"),
                       IF position = Positions[Len(Positions)]
                       THEN Returned(found)
                       ELSE Running(ReadsDone(consistency_out) + 1, found))
    /\ UNCHANGED <<df, rookie_out, chart_out, breakout_out, value_out,
                   draft_out, consistency_chart_out, comparison_out,
                   interface_out, trends_out, summary_out, repeat_out,
                   snapshot, subset_out, collect_vars>>

\* calculate_breakout_insights: df.groupby (line 100), then
\* df[df['player_id'].isin(multi_season_players)].copy() (line 103) and the
\* rest, on the copy
BreakoutStep ==
    /\ ~breakout_out.run
    /\ breakout_out' =
          IF ReadsDone(breakout_out) = 0
          THEN Reading(df, <<"player_id", "season">>,
                       Running(1, multi_season_players(df)))
          ELSE Reading(df, RequiredColumns("breakout"),
                       LET multi_season_data ==
                               SelectSeq(df, LAMBDA r : r.player_id \in breakout_out.local)
                           valid == ValidChanges(SeasonStats(multi_season_data))
                       IN  Returned([valid_changes |-> valid,
                                     insights |-> [pos \in PositionSet |->
                                                      BreakoutPositionInsights(valid, pos)]]))
    /\ UNCHANGED <<df, rookie_out, chart_out, value_out, draft_out,
                   consistency_out, consistency_chart_out, comparison_out,
                   interface_out, trends_out, summary_out, repeat_out,
                   snapshot, subset_out, collect_vars>>

\* calculate_positional_value_insights: df.groupby (line 160), then
\* df['season'].unique() (line 164) and the loops over season_totals
ValueStep ==
    /\ ~value_out.run
    /\ value_out' =
          IF ReadsDone(value_out) = 0
          THEN Reading(df, RequiredColumns("value"), Running(1, season_totals(df)))
          ELSE Reading(df, <<"season">>,
                       Returned([season \in {df[i].season : i \in DOMAIN df} |->
                                    [pos \in PositionSet |->
                                        ValuePositionInsights(value_out.local, season, pos)]]))
    /\ UNCHANGED <<df, rookie_out, chart_out, breakout_out, draft_out,
                   consistency_out, consistency_chart_out, comparison_out,
                   interface_out, trends_out, summary_out, repeat_out,
                   snapshot, subset_out, collect_vars>>

\* calculate_weekly_trends_insights: df[df['position'] == position] (line
\* 206) and the entry of the position, once for each position; idxmax() of
\* the empty Series of a position without rows raises ValueError
TrendsStep ==
    /\ ~trends_out.run
    /\ LET position == Positions[ReadsDone(trends_out) + 1]
           insights == IF trends_out = NotRun THEN <<>> ELSE trends_out.local
           found == WithEntry(insights, position, TrendsPositionInsights(df, position))
       IN  trends_out' =
               Reading(df, RequiredColumns("trends"),
                       IF \A i \in DOMAIN df : df[i].position # position
                       THEN Raised("ValueError", "idxmax")
                       ELSE Reading(df, <<"player_display_name">>,
                                    IF position = Positions[Len(Positions)]
                                    THEN Returned(found)
                                    ELSE Running(ReadsDone(trends_out) + 1, found)))
    /\ UNCHANGED <<df, rookie_out, chart_out, breakout_out, value_out,
                   draft_out, consistency_out, consistency_chart_out,
                   comparison_out, interface_out, summary_out, repeat_out,
                   snapshot, subset_out, collect_vars>>

\* generate_draft_recommendations: df[df['season'].isin(...)] (line 246) is
\* its one read of df
DraftStep ==
    /\ ~draft_out.run
    /\ draft_out' = Outcome("draft", df)
    /\ UNCHANGED <<df, rookie_out, chart_out, breakout_out, value_out,
                   consistency_out, consistency_chart_out, comparison_out,
                   interface_out, trends_out, summary_out, repeat_out,
                   snapshot, subset_out, collect_vars>>

InitParallel ==
    /\ df \in InsightTables
    /\ NoOutput
    /\ snapshot = df
    /\ NoScript

NextParallel ==
    \/ RookieStep
    \/ ConsistencyStep
    \/ BreakoutStep
    \/ ValueStep
    \/ TrendsStep
    \/ DraftStep

SpecParallel == InitParallel /\ [][NextParallel]_vars

\* the dashboard filters the table to one season before it calls the rookie
\* classifier and the rookie chart; the tables are those of the scorer with
\* one position and one spread, whose players start in 2021 to 2024
MaxSubsetPlayers == 5

SubsetTables ==
    {DraftTable(n, "RB", shift, 1) : n \in 1..MaxSubsetPlayers, shift \in 0..5}

InitSubset ==
    /\ df \in SubsetTables
    /\ NoOutput
    /\ snapshot = <<>>
    /\ NoScript

\* df[df['season'] == season]
SeasonSubset(t, season) == SelectSeq(t, LAMBDA r : r.season = season)

ClassifySeason ==
    /\ subset_out = NotRun
    /\ \E season \in available_seasons(df) :
          subset_out' =
              [run |-> TRUE,
               season |-> season,
               insights |-> Outcome("rookie", SeasonSubset(df, season)),
               chart |-> create_rookie_analysis_chart(SeasonSubset(df, season))]
    /\ UNCHANGED <<df, rookie_out, chart_out, breakout_out, value_out,
                   draft_out, consistency_out, consistency_chart_out,
                   comparison_out, interface_out, trends_out, summary_out,
                   repeat_out, snapshot, collect_vars>>

\* the classifier is called once more on the subset of the same season
ClassifySeasonAgain ==
    /\ subset_out.run
    /\ repeat_out = NotRun
    /\ repeat_out' =
          [run |-> TRUE,
           fn |-> "rookie",
           out |-> Outcome("rookie", SeasonSubset(df, subset_out.season))]
    /\ UNCHANGED <<df, rookie_out, chart_out, breakout_out, value_out,
                   draft_out, consistency_out, consistency_chart_out,
                   comparison_out, interface_out, trends_out, summary_out,
                   snapshot, subset_out, collect_vars>>

NextSubset == CalculateRookieInsights \/ ClassifySeason \/ ClassifySeasonAgain

SpecSubset == InitSubset /\ [][NextSubset]_vars

\* the remote datasets: the first rows of a list of weekly observations (a
\* running back with two games, a kicker, a receiver of a team the team
\* table does not hold), of teams and of roster entries (the running back
\* is on the 2023 roster of two teams)
MaxWeeklyRows == 4
MaxTeamRows == 2
MaxRosterRows == 4

NflSources ==
    LET weekly == <<WeeklyRow(1, "RB", "KC", 2023, 1), WeeklyRow(1, "RB", "KC", 2023, 2),
                    WeeklyRow(2, "K", "KC", 2023, 1), WeeklyRow(3, "WR", "SF", 2021, 1)>>
        team == <<TeamRow("KC", "Chiefs"), TeamRow("DEN", "Broncos")>>
        roster == <<RosterRow(2023, "KC", 1, "RB", "A"), RosterRow(2023, "DEN", 1, "RB", "A"),
                    RosterRow(2021, "SF", 3, "WR", "B"), RosterRow(2023, "KC", 2, "K", "C")>>
    IN  {[weekly |-> Take(weekly, w), team |-> Take(team, t), roster |-> Take(roster, r)] :
            w \in 0..MaxWeeklyRows, t \in 0..MaxTeamRows, r \in 0..MaxRosterRows}

\* __main__ has called collect_historical_data, which enters its try block
InitCollect ==
    /\ df = <<>>
    /\ NoOutput
    /\ snapshot = <<>>
    /\ nfl \in NflSources
    /\ pc = "weekly"
    /\ frames = <<>>
    /\ files = <<>>
    /\ success = "none"
    /\ steps = <<>>

\* a file with all its content, and what is left of a file whose write raised
Whole(content) == [whole |-> TRUE, data |-> content]

Truncated == [whole |-> FALSE, data |-> <<>>]

\* to_csv / json.dump: the file is created or overwritten
Written(step, file) == WithEntry(files, CHOOSE f \in FilesOf(step) : TRUE, file)

\* a step completes: its frames and files are kept and the next step is due
\* (after the summary, return True)
Completes(step, new_frames, new_files) ==
    /\ frames' = new_frames
    /\ files' = new_files
    /\ steps' = Append(steps, [step |-> step, ok |-> TRUE])
    /\ pc' = NextStep(step)
    /\ success' = IF step = "summary" THEN "True" ELSE success

\* a step raises: except Exception reports it and returns False; a write
\* that raised may have left its file behind, truncated
Raises(step) ==
    /\ UNCHANGED frames
    /\ \E truncated \in BOOLEAN :
          files' = IF truncated /\ FilesOf(step) # {} THEN Written(step, Truncated)
                   ELSE files
    /\ steps' = Append(steps, [step |-> step, ok |-> FALSE])
    /\ pc' = "returned"
    /\ success' = "False"

\* 1. import_weekly_data, the fantasy positions, weekly_fantasy_data.csv
CollectWeekly ==
    /\ pc = "weekly"
    /\ \E raises \in BOOLEAN :
          IF raises THEN Raises("weekly")
          ELSE LET weekly_fantasy == FantasyOnly(nfl.weekly)
               IN  Completes("weekly",
                             WithEntry(frames, "weekly_fantasy", weekly_fantasy),
                             Written("weekly", Whole(weekly_fantasy)))
    /\ UNCHANGED <<nfl, dashboard_vars>>

\* 2. import_seasonal_data, seasonal_data.csv (no later step reads it)
CollectSeasonal ==
    /\ pc = "seasonal"
    /\ \E raises \in BOOLEAN :
          IF raises THEN Raises("seasonal")
          ELSE Completes("seasonal", frames, Written("seasonal", Whole(<<>>)))
    /\ UNCHANGED <<nfl, dashboard_vars>>

\* 3. import_team_desc, team_data.csv
CollectTeams ==
    /\ pc = "teams"
    /\ \E raises \in BOOLEAN :
          IF raises THEN Raises("teams")
          ELSE Completes("teams",
                         WithEntry(frames, "team_data", nfl.team),
                         Written("teams", Whole(nfl.team)))
    /\ UNCHANGED <<nfl, dashboard_vars>>

\* 4. import_seasonal_rosters, the fantasy positions, clean_data_types (it
\* converts jersey_number, status and birth_date, columns no later step
\* reads), roster_fantasy_data.csv
CollectRosters ==
    /\ pc = "rosters"
    /\ \E raises \in BOOLEAN :
          IF raises THEN Raises("rosters")
          ELSE LET roster_fantasy == FantasyOnly(nfl.roster)
               IN  Completes("rosters",
                             WithEntry(frames, "roster_fantasy", roster_fantasy),
                             Written("rosters", Whole(roster_fantasy)))
    /\ UNCHANGED <<nfl, dashboard_vars>>

\* 5. the printed statistics of weekly_fantasy
AnalyseCollected ==
    /\ pc = "analysis"
    /\ \E raises \in BOOLEAN :
          IF raises THEN Raises("analysis")
          ELSE Completes("analysis", frames, files)
    /\ UNCHANGED <<nfl, dashboard_vars>>

\* 6. the two left merges, consolidated_fantasy_data.csv
Consolidate ==
    /\ pc = "consolidate"
    /\ \E raises \in BOOLEAN :
          IF raises THEN Raises("consolidate")
          ELSE LET weekly_consolidated ==
                       MergeRosters(MergeTeams(frames["weekly_fantasy"],
                                               team_info(frames["team_data"])),
                                    roster_info(frames["roster_fantasy"]))
               IN  Completes("consolidate",
                             WithEntry(frames, "weekly_consolidated", weekly_consolidated),
                             Written("consolidate", Whole(weekly_consolidated)))
    /\ UNCHANGED <<nfl, dashboard_vars>>

\* 7. the file of one position, in the order of fantasy_positions
WritePositionData ==
    /\ pc \in PositionSet
    /\ \E raises \in BOOLEAN :
          IF raises THEN Raises(pc)
          ELSE Completes(pc, frames,
                         Written(pc, Whole(SelectSeq(frames["weekly_consolidated"],
                                                     LAMBDA r : r.position = pc))))
    /\ UNCHANGED <<nfl, dashboard_vars>>

\* 8. data_summary.json, and return True
WriteSummary ==
    /\ pc = "summary"
    /\ \E raises \in BOOLEAN :
          IF raises THEN Raises("summary")
          ELSE LET weekly_consolidated == frames["weekly_consolidated"]
                   summary ==
                       [total_weekly_records |-> Len(weekly_consolidated),
                        total_players |->
                            Cardinality({weekly_consolidated[i].player_id :
                                            i \in DOMAIN weekly_consolidated}),
                        teams |->
                            Cardinality({weekly_consolidated[i].recent_team :
                                            i \in DOMAIN weekly_consolidated})]
               IN  Completes("summary", frames, Written("summary", Whole(summary)))
    /\ UNCHANGED <<nfl, dashboard_vars>>

\* a faulty variant: the sample is made whatever the collection returned
CreateSampleDataAlways ==
    /\ pc = "returned"
    /\ \E raises \in BOOLEAN :
          IF \/ raises
             \/ "consolidated_fantasy_data.csv" \notin DOMAIN files
             \/ ~files["consolidated_fantasy_data.csv"].whole
          THEN /\ steps' = Append(steps, [step |-> "sample", ok |-> FALSE])
               /\ UNCHANGED files
          ELSE /\ steps' = Append(steps, [step |-> "sample", ok |-> TRUE])
               /\ files' = Written("sample",
                                   Whole(SelectSeq(files["consolidated_fantasy_data.csv"].data,
                                                   LAMBDA r : r.season \in SampleYears)))
    /\ pc' = "done"
    /\ UNCHANGED <<nfl, frames, success, dashboard_vars>>

\* if success: create_sample_data() reads the consolidated file and writes
\* the rows of the sample years; its own exceptions are caught and its
\* result is not used
CreateSampleData ==
    /\ pc = "returned"
    /\ success = "True"
    /\ \E raises \in BOOLEAN :
          IF raises
          THEN /\ steps' = Append(steps, [step |-> "sample", ok |-> FALSE])
               /\ UNCHANGED files
          ELSE /\ steps' = Append(steps, [step |-> "sample", ok |-> TRUE])
               /\ files' = Written("sample",
                                   Whole(SelectSeq(files["consolidated_fantasy_data.csv"].data,
                                                   LAMBDA r : r.season \in SampleYears)))
    /\ pc' = "done"
    /\ UNCHANGED <<nfl, frames, success, dashboard_vars>>

\* else: the failure is printed
ProcessFailed ==
    /\ pc = "returned"
    /\ success = "False"
    /\ pc' = "done"
    /\ UNCHANGED <<nfl, frames, files, success, steps, dashboard_vars>>

NextCollect ==
    \/ CollectWeekly
    \/ CollectSeasonal
    \/ CollectTeams
    \/ CollectRosters
    \/ AnalyseCollected
    \/ Consolidate
    \/ WritePositionData
    \/ WriteSummary
    \/ CreateSampleData
    \/ ProcessFailed

SpecCollect == InitCollect /\ [][NextCollect]_vars

\* ------------------------------------------------------------ C1
RowsOfPlayer(t, p) == {i \in DOMAIN t : t[i].player_id = p}
SeasonsOfPlayer(t, p) == {t[i].season : i \in RowsOfPlayer(t, p)}
PlayerIds(t) == {t[i].player_id : i \in DOMAIN t}

RookieLabelsRight(lt) ==
    /\ DOMAIN lt = DOMAIN df
    /\ \A i \in DOMAIN lt :
          /\ lt[i].row = df[i]
          /\ lt[i].is_rookie <=>
                \A j \in DOMAIN df :
                    df[j].player_id = df[i].player_id => df[i].season <= df[j].season
    /\ \A p \in PlayerIds(df) :
          LET marked == {df[i].season : i \in {j \in RowsOfPlayer(df, p) : lt[j].is_rookie}}
          IN  /\ Cardinality(marked) = 1
              /\ Cardinality(SeasonsOfPlayer(df, p)) = 1 =>
                    \A i \in RowsOfPlayer(df, p) : lt[i].is_rookie

\* C1: in both rookie computations an observation is marked rookie iff its
\* season is the minimum season of its player_id in the table; a one-season
\* player has every observation marked, a player with several seasons has
\* exactly one season (the minimum) marked.
C1_RookieIffFirstSeason ==
    /\ rookie_out.run => RookieLabelsRight(rookie_out.out.df_with_rookie)
    /\ chart_out.run => RookieLabelsRight(chart_out.out.df_with_rookie)

C1_Witness ==
    /\ rookie_out.run
    /\ chart_out.run
    /\ \E p, q \in PlayerIds(df) :
          /\ Cardinality(SeasonsOfPlayer(df, p)) >= 2
          /\ Cardinality(SeasonsOfPlayer(df, q)) = 1
          /\ \E i \in RowsOfPlayer(df, p) : ~rookie_out.out.df_with_rookie[i].is_rookie

\* ------------------------------------------------------------ C2

\* the season total of a player, over every row of that player and season
SeasonTotal(t, p, season) ==
    SumPoints(SelectSeq(t, LAMBDA r : r.player_id = p /\ r.season = season))

MetByTotals(p, breakout) ==
    LET prev == SeasonTotal(df, p, 2023)
        cur == SeasonTotal(df, p, 2024)
    IN  IF breakout
        THEN cur - prev > 50 /\ (cur - prev) * 100 > 25 * prev
        ELSE cur - prev < -50 /\ (cur - prev) * 100 < (-25) * prev

\* C2: a year-over-year row meets the breakout filter iff its delta is > 50
\* and its percentage is > 25, the bust filter iff its delta is < -50 and its
\* percentage is < -25, never both; a delta of exactly 50 or a percentage of
\* exactly 25 is neutral; the breakouts and busts listed are rows that met
\* the filter (all of them when there are at most ten).  On a positive
\* prior total the same is said of the season totals of the table itself.
C2_ThresholdClassification ==
    breakout_out.run =>
        \A pos \in PositionSet :
            LET e == breakout_out.out.insights[pos]
            IN  /\ \A i \in DOMAIN e.pos_data :
                      LET r == e.pos_data[i]
                      IN  /\ InSeq(r, e.met_breakout) <=>
                                (r.yoy_change.val > 50 /\ PctGt(r.yoy_change_pct, 25))
                          /\ InSeq(r, e.met_bust) <=>
                                (r.yoy_change.val < -50 /\ PctLt(r.yoy_change_pct, -25))
                          /\ ~(InSeq(r, e.met_breakout) /\ InSeq(r, e.met_bust))
                          /\ r.yoy_change.val = 50 => ~InSeq(r, e.met_breakout)
                          /\ (r.yoy_change_pct.kind = "num"
                                /\ r.yoy_change_pct.num = 25 * r.yoy_change_pct.den)
                                => ~InSeq(r, e.met_breakout)
                          /\ SeasonTotal(df, r.player_id, 2023) > 0 =>
                                /\ InSeq(r, e.met_breakout) <=> MetByTotals(r.player_id, TRUE)
                                /\ InSeq(r, e.met_bust) <=> MetByTotals(r.player_id, FALSE)
                /\ SeqSet(e.breakouts) \subseteq SeqSet(e.met_breakout)
                /\ SeqSet(e.busts) \subseteq SeqSet(e.met_bust)
                /\ Len(e.met_breakout) <= 10 => SeqSet(e.breakouts) = SeqSet(e.met_breakout)
                /\ Len(e.met_bust) <= 10 => SeqSet(e.busts) = SeqSet(e.met_bust)

\* totals [100, 160]: delta +60, 60 %, a breakout
C2_Witness ==
    /\ breakout_out.run
    /\ df = TwoSeasonTable(100, 160)
    /\ LET e == breakout_out.out.insights["RB"]
       IN  /\ Len(e.breakouts) = 1
           /\ e.breakouts[1].yoy_change = Num(60)
           /\ e.breakouts[1].yoy_change_pct = Pct("num", 6000, 100)
           /\ e.busts = <<>>

\* ------------------------------------------------------------ C3
Classified(r) ==
    \/ InSeq(r, breakout_out.out.insights[r.position].met_breakout)
    \/ InSeq(r, breakout_out.out.insights[r.position].met_bust)

\* C3: a row whose prior-season total is zero has a missing percentage (not
\* an infinity) and is neither breakout nor bust.
C3_ZeroBaseIsMissing ==
    breakout_out.run =>
        \A i \in DOMAIN breakout_out.out.valid_changes :
            LET r == breakout_out.out.valid_changes[i]
            IN  r.prev_season_points = Num(0) =>
                    /\ r.yoy_change_pct.kind = "nan"
                    /\ ~Classified(r)

\* ------------------------------------------------------------ C4
ValidRowsOf(p) ==
    {i \in DOMAIN breakout_out.out.valid_changes :
        breakout_out.out.valid_changes[i].player_id = p}

FirstSeason(t, p) == CHOOSE m \in SeasonsOfPlayer(t, p) : \A s \in SeasonsOfPlayer(t, p) : m <= s

\* C4: a player with k >= 2 seasons contributes exactly k - 1 classified
\* rows, one for each season but the first; a one-season player none.
C4_FirstSeasonExcluded ==
    breakout_out.run =>
        \A p \in PlayerIds(df) :
            LET k == Cardinality(SeasonsOfPlayer(df, p))
                rows == ValidRowsOf(p)
            IN  IF k < 2 THEN rows = {}
                ELSE /\ Cardinality(rows) = k - 1
                     /\ {breakout_out.out.valid_changes[i].season : i \in rows}
                            = SeasonsOfPlayer(df, p) \ {FirstSeason(df, p)}

\* ------------------------------------------------------------ C5
PrecedingSeason(t, p, season) ==
    LET earlier == {s \in SeasonsOfPlayer(t, p) : s < season}
    IN  CHOOSE m \in earlier : \A s \in earlier : s <= m

\* C5: prev_season_points of a classified row is the player's total in the
\* season before it (a strictly earlier season), and yoy_change is the row's
\* total minus that.
C5_PrevIsPrecedingSeason ==
    breakout_out.run =>
        \A i \in DOMAIN breakout_out.out.valid_changes :
            LET r == breakout_out.out.valid_changes[i]
            IN  /\ \E s \in SeasonsOfPlayer(df, r.player_id) : s < r.season
                /\ r.prev_season_points =
                       Num(SeasonTotal(df, r.player_id, PrecedingSeason(df, r.player_id, r.season)))
                /\ r.yoy_change = FSub(r.fantasy_points_ppr, r.prev_season_points)

\* ------------------------------------------------------------ C6
\* the players (id and name) of a season and position, and a player's total
PlayersAt(t, season, pos) ==
    {<<t[i].player_id, t[i].player_display_name>> :
        i \in {j \in DOMAIN t : t[j].season = season /\ t[j].position = pos}}

TotalAt(t, who, season, pos) ==
    SumPoints(SelectSeq(t, LAMBDA r : /\ r.player_id = who[1]
                                      /\ r.player_display_name = who[2]
                                      /\ r.season = season /\ r.position = pos))

SeasonsOf(t) == {t[i].season : i \in DOMAIN t}

\* v is the K-th largest of the players' totals
IsKthLargest(v, K, t, season, pos) ==
    LET P == PlayersAt(t, season, pos)
    IN  /\ \E who \in P : TotalAt(t, who, season, pos) = v
        /\ Cardinality({who \in P : TotalAt(t, who, season, pos) > v}) < K
        /\ Cardinality({who \in P : TotalAt(t, who, season, pos) >= v}) >= K

\* C6: for a season and position with n >= 1 players the replacement
\* baseline is the N-th largest season total (N = 12 for QB and TE, 24 for RB
\* and WR), or the lowest total when n < N; it is a number, and a position
\* without players has no entry.
C6_ReplacementBaseline ==
    value_out.run =>
        /\ DOMAIN value_out.out = SeasonsOf(df)
        /\ \A season \in SeasonsOf(df) : \A pos \in PositionSet :
              LET n == Cardinality(PlayersAt(df, season, pos))
                  N == IF pos \in {"QB", "TE"} THEN 12 ELSE 24
                  e == value_out.out[season][pos]
              IN  IF n = 0 THEN ~e.present
                  ELSE /\ e.present
                       /\ IsNum(e.replacement_value)
                       /\ IsKthLargest(e.replacement_value.val,
                                       IF n >= N THEN N ELSE n, df, season, pos)

\* 30 running backs with different totals: the baseline is the 24th
C6_Witness ==
    /\ value_out.run
    /\ df = ValueTable(30, "RB", 1, FALSE)
    /\ value_out.out[2024]["RB"].replacement_value
          = value_out.out[2024]["RB"].pos_data[24].fantasy_points_ppr
    /\ value_out.out[2024]["RB"].pos_data[24].fantasy_points_ppr.val
          < value_out.out[2024]["RB"].pos_data[23].fantasy_points_ppr.val

\* ------------------------------------------------------------ C7
\* C7: the value above replacement of every player of a season and position
\* is the player's season total minus the baseline of that season and
\* position: negative below the baseline, never clamped to zero.
C7_VbdIsTotalMinusBaseline ==
    value_out.run =>
        \A season \in SeasonsOf(df) : \A pos \in PositionSet :
            LET e == value_out.out[season][pos]
            IN  e.present =>
                  /\ {<<e.pos_data[i].player_id, e.pos_data[i].player_display_name>> :
                          i \in DOMAIN e.pos_data} = PlayersAt(df, season, pos)
                  /\ \A i \in DOMAIN e.pos_data :
                        LET r == e.pos_data[i]
                            total == TotalAt(df, <<r.player_id, r.player_display_name>>,
                                             season, pos)
                        IN  /\ r.vbd = Num(total - e.replacement_value.val)
                            /\ total < e.replacement_value.val => r.vbd.val < 0
                  /\ \A i \in DOMAIN e.top_vbd_players :
                        e.top_vbd_players[i] = e.pos_data[i]

\* a quarterback below the 12th has a negative value above replacement
C7_Witness ==
    /\ value_out.run
    /\ value_out.out[2024]["QB"].present
    /\ \E i \in DOMAIN value_out.out[2024]["QB"].pos_data :
          value_out.out[2024]["QB"].pos_data[i].vbd.val < 0

\* ------------------------------------------------------------ C8
\* the points a player (a display name) scored at a position in the seasons
\* 2022 to 2024, null cells left out
WindowPoints(player, pos) ==
    LET rows == SelectSeq(df, LAMBDA r : /\ r.player_display_name = player
                                         /\ r.position = pos
                                         /\ r.season \in {2022, 2023, 2024}
                                         /\ r.fantasy_points_ppr.kind = "num")
    IN  [i \in DOMAIN rows |-> rows[i].fantasy_points_ppr.val]

\* x is the decimal num / den rounded down to hundredths (den > 0)
IsQuotient(x, num, den) == x.kind = "num" /\ x.val * den <= num * 100 /\ num * 100 < (x.val + 1) * den

\* x is the root of num / den rounded down to hundredths (den > 0)
IsRoot(x, num, den) ==
    /\ x.kind = "num"
    /\ x.val >= 0
    /\ x.val * x.val * den <= num * 10000
    /\ num * 10000 < (x.val + 1) * (x.val + 1) * den

ScoresRight(r, pos) ==
    LET v == WindowPoints(r.player, pos)
        n == Len(v)
    IN  /\ IF n = 0 THEN r.avg_ppg.kind = "nan" ELSE IsQuotient(r.avg_ppg, Sum(v), n)
        /\ IF n < 2 THEN r.std_ppg.kind = "nan"
           ELSE IsRoot(r.std_ppg, n * Sum(Squares(v)) - Sum(v) * Sum(v), n * (n - 1))
        /\ IF r.avg_ppg.kind = "num" /\ r.std_ppg.kind = "num"
           THEN /\ IsQuotient(r.consistency_score, r.avg_ppg.val, r.std_ppg.val + 100)
                /\ r.draft_score.kind = "num"
                /\ 10 * r.draft_score.val <= 7 * r.avg_ppg.val + 3 * r.consistency_score.val
                /\ 7 * r.avg_ppg.val + 3 * r.consistency_score.val < 10 * (r.draft_score.val + 1)
           ELSE r.consistency_score.kind = "nan" /\ r.draft_score.kind = "nan"

RowOf(E, player) == E[CHOOSE k \in DOMAIN E : E[k].player = player]

\* C8: every eligible player has consistency_score = mean / (deviation + 1)
\* and draft_score = 0.7 * mean + 0.3 * consistency_score (to the hundredth),
\* mean and sample deviation being those of the player's points in the
\* trailing window; the three lists report these values.
C8_ScoreFormulas ==
    draft_out.run =>
        \A pos \in PositionSet :
            LET e == draft_out.out[pos]
            IN  e.present =>
                  /\ \A k \in DOMAIN e.experienced_players :
                        ScoresRight(e.experienced_players[k], pos)
                  /\ \A k \in DOMAIN e.safe_picks :
                        LET l == e.safe_picks[k]
                            r == RowOf(e.experienced_players, l.player)
                        IN  /\ l.avg_ppg = r.avg_ppg /\ l.std_ppg = r.std_ppg
                            /\ l.consistency_score = r.consistency_score
                  /\ \A k \in DOMAIN e.upside_picks :
                        e.upside_picks[k].avg_ppg
                            = RowOf(e.experienced_players, e.upside_picks[k].player).avg_ppg
                  /\ \A k \in DOMAIN e.overall_rankings :
                        LET l == e.overall_rankings[k]
                            r == RowOf(e.experienced_players, l.player)
                        IN  l.avg_ppg = r.avg_ppg /\ l.draft_score = r.draft_score

\* points 16, 20, 24: mean 20.0, deviation 4.0, consistency 4.0, score 15.2
C8_Witness ==
    /\ draft_out.run
    /\ \E pos \in PositionSet :
          /\ draft_out.out[pos].present
          /\ \E k \in DOMAIN draft_out.out[pos].experienced_players :
                LET r == draft_out.out[pos].experienced_players[k]
                IN  /\ WindowPoints(r.player, pos) = <<16, 20, 24>>
                    /\ r.avg_ppg = Num(2000)
                    /\ r.std_ppg = Num(400)
                    /\ r.consistency_score = Num(400)
                    /\ r.draft_score = Num(1520)

\* ------------------------------------------------------------ C9
WindowSeasons(player, pos) ==
    {df[i].season : i \in {j \in DOMAIN df : /\ df[j].player_display_name = player
                                              /\ df[j].position = pos
                                              /\ df[j].season \in {2022, 2023, 2024}}}

Recommended(pos) ==
    LET e == draft_out.out[pos]
    IN  IF ~e.present THEN {}
        ELSE {e.safe_picks[k].player : k \in DOMAIN e.safe_picks}
             \cup {e.upside_picks[k].player : k \in DOMAIN e.upside_picks}
             \cup {e.overall_rankings[k].player : k \in DOMAIN e.overall_rankings}

\* C9: every recommended player has observations in at least two distinct
\* seasons of the trailing window.
C9_TwoSeasonsInWindow ==
    draft_out.run =>
        \A pos \in PositionSet : \A player \in Recommended(pos) :
            Cardinality(WindowSeasons(player, pos)) >= 2

\* ------------------------------------------------------------ C10
Min(a, b) == IF a <= b THEN a ELSE b

\* list holds the (up to) limit rows of E with the largest value in the
\* column, largest first (NaN after every number), each player once
IsTopBy(list, E, limit, column) ==
    /\ Len(list) = Min(limit, Len(E))
    /\ \A k \in DOMAIN list : \E j \in DOMAIN E : E[j].player = list[k].player
    /\ \A k, j \in DOMAIN list : k # j => list[k].player # list[j].player
    /\ \A k, j \in DOMAIN list : k < j => ~Larger(list[j][column], list[k][column])
    /\ \A j \in DOMAIN E :
          (\A k \in DOMAIN list : list[k].player # E[j].player) =>
              \A k \in DOMAIN list :
                  ~Larger(E[j][column], RowOf(E, list[k].player)[column])

\* C10: safe_picks are the (up to) 5 eligible players with the largest
\* consistency_score, upside_picks the (up to) 5 with the largest mean,
\* overall_rankings the (up to) 10 with the largest draft_score, each in
\* descending order of its own key and each taken from the whole eligible set.
C10_IndependentRankings ==
    draft_out.run =>
        \A pos \in PositionSet :
            LET e == draft_out.out[pos]
            IN  e.present =>
                  /\ IsTopBy(e.safe_picks, e.experienced_players, 5, "consistency_score")
                  /\ IsTopBy(e.upside_picks, e.experienced_players, 5, "avg_ppg")
                  /\ IsTopBy(e.overall_rankings, e.experienced_players, 10, "draft_score")

\* more than ten eligible players, and a safe pick that is no upside pick
C10_Witness ==
    /\ draft_out.run
    /\ \E pos \in PositionSet :
          LET e == draft_out.out[pos]
          IN  /\ e.present
              /\ Len(e.experienced_players) > 10
              /\ Len(e.overall_rankings) = 10
              /\ \E k \in DOMAIN e.safe_picks :
                    \A j \in DOMAIN e.upside_picks :
                        e.upside_picks[j].player # e.safe_picks[k].player
              /\ \E k \in DOMAIN e.safe_picks :
                    \E j \in DOMAIN e.upside_picks :
                        e.upside_picks[j].player = e.safe_picks[k].player

\* ------------------------------------------------------------ C11
\* the observations (rows) of a display name in a table
RowsOfName(t, name) == {i \in DOMAIN t : t[i].player_display_name = name}

\* C11: in the consistency comparison, a group that holds exactly one
\* observation is reported with a missing standard deviation (the call
\* returns, the cell is neither 0 nor any other number), and the cv, floor
\* and ceiling derived from it are missing too
C11_SingleObservationStdMissing ==
    comparison_out.run =>
        /\ ~comparison_out.raised
        /\ \A k \in DOMAIN comparison_out.out :
              LET r == comparison_out.out[k]
              IN  Cardinality(RowsOfName(df, r.player)) = 1 =>
                      /\ IsNaN(r.std)
                      /\ IsNaN(r.cv)
                      /\ IsNaN(r.floor)
                      /\ IsNaN(r.ceiling)

\* a group of one observation with a known mean has been compared
C11_Witness ==
    /\ comparison_out.run
    /\ \E k \in DOMAIN comparison_out.out :
          /\ Cardinality(RowsOfName(df, comparison_out.out[k].player)) = 1
          /\ comparison_out.out[k].games = 1
          /\ IsNum(comparison_out.out[k].avg)

\* ------------------------------------------------------------ C12
\* the observations of a display name at a position that have points
GamesOf(t, name, pos) ==
    Cardinality({i \in RowsOfName(t, name) :
                    t[i].position = pos /\ IsNum(t[i].fantasy_points_ppr)})

\* the display names with at least min_games such observations at a position
QualifiedNames(t, pos, min_games) ==
    {t[i].player_display_name : i \in {j \in DOMAIN t : t[j].position = pos}}
        \cap {name \in {t[i].player_display_name : i \in DOMAIN t} :
                 GamesOf(t, name, pos) >= min_games}

PlayersIn(list) == {list[k].player : k \in DOMAIN list}

\* a mean, to the hundredth, of the numbers of a list of cells
IsMeanOf(x, cells) ==
    /\ IsNum(x)
    /\ Len(cells) * x.val <= Sum(Vals(cells))
    /\ Sum(Vals(cells)) < Len(cells) * (x.val + 1)

\* C12: the players analysed at a position are exactly those with 16 games
\* there, cv is derived for them only: the three lists hold analysed players
\* (so players of 16 games), total_players_analyzed counts them and avg_cv
\* averages their cv; the consistency chart and the options of the comparison
\* page hold exactly the players with 8 games
C12_MinGamesBeforeDerivation ==
    /\ consistency_out.run =>
          \A pos \in PositionSet :
              LET e == consistency_out.out[pos]
                  Q == QualifiedNames(df, pos, MinGames)
              IN  IF Q = {} THEN ~e.present
                  ELSE /\ e.present
                       /\ PlayersIn(e.player_consistency) = Q
                       /\ \A k \in DOMAIN e.player_consistency :
                             LET r == e.player_consistency[k]
                             IN  /\ r.games = GamesOf(df, r.player, pos)
                                 /\ r.games >= MinGames
                       /\ SeqSet(e.most_consistent) \subseteq SeqSet(e.player_consistency)
                       /\ SeqSet(e.highest_ceiling) \subseteq SeqSet(e.player_consistency)
                       /\ SeqSet(e.highest_floor) \subseteq SeqSet(e.player_consistency)
                       /\ e.total_players_analyzed = Cardinality(Q)
                       /\ LET cvs == [k \in DOMAIN e.player_consistency |->
                                         e.player_consistency[k].cv]
                          IN  (\A k \in DOMAIN cvs : IsNum(cvs[k])) => IsMeanOf(e.avg_cv, cvs)
    /\ (consistency_chart_out.run /\ ~consistency_chart_out.raised) =>
          \E position \in PositionSet :
              LET Q == QualifiedNames(df, position, ChartMinGames)
              IN  /\ PlayersIn(consistency_chart_out.out.consistency_data) = Q
                  /\ PlayersIn(consistency_chart_out.out.top_players) \subseteq Q
                  /\ \A k \in DOMAIN consistency_chart_out.out.top_players :
                        consistency_chart_out.out.top_players[k].games >= ChartMinGames
    /\ (interface_out.run /\ interface_out.out.status # "no_data") =>
          \E position \in PositionSet :
              /\ PlayersIn(interface_out.out.player_options)
                     = QualifiedNames(df, position, ComparisonMinGames)
              /\ \A k \in DOMAIN interface_out.out.player_options :
                    interface_out.out.player_options[k].games >= ComparisonMinGames

\* the three computations have run on a table with a player of 16 games, one
\* of 8 to 15 games and one of fewer than 8
C12_Witness ==
    /\ consistency_out.run
    /\ consistency_chart_out.run
    /\ ~consistency_chart_out.raised
    /\ interface_out.run
    /\ interface_out.out.status = "compared"
    /\ \E pos \in PositionSet, a, b, c \in PlayersIn(player_consistency(df)) :
          /\ consistency_out.out[pos].present
          /\ GamesOf(df, a, pos) >= MinGames
          /\ GamesOf(df, b, pos) >= ChartMinGames
          /\ GamesOf(df, b, pos) < MinGames
          /\ GamesOf(df, c, pos) < ChartMinGames
          /\ GamesOf(df, c, pos) > 0
          /\ b \in PlayersIn(consistency_chart_out.out.top_players)
          /\ b \in PlayersIn(interface_out.out.player_options)

\* ------------------------------------------------------------ C13
\* the observations of a display name at a position, with or without points
ObservationsOf(t, name, pos) ==
    Cardinality({i \in RowsOfName(t, name) : t[i].position = pos})

\* C13: the games count of a player is the number of its observation rows,
\* null points included, and the 16-game filter goes by that number: the
\* players analysed at a position are those with 16 rows there, and the
\* games cell of each is its number of rows
C13_GamesCountsRows ==
    consistency_out.run =>
        \A pos \in PositionSet :
            LET e == consistency_out.out[pos]
                Q == {name \in PlayersIn(player_consistency(df)) :
                         ObservationsOf(df, name, pos) >= MinGames}
            IN  IF Q = {} THEN ~e.present
                ELSE /\ e.present
                     /\ PlayersIn(e.player_consistency) = Q
                     /\ \A k \in DOMAIN e.player_consistency :
                           e.player_consistency[k].games
                               = ObservationsOf(df, e.player_consistency[k].player, pos)

\* ------------------------------------------------------------ C14
\* the observations with points of a player (by identifier) at a position
GamesOfPlayer(t, p, pos) ==
    Cardinality({i \in RowsOfPlayer(t, p) :
                    t[i].position = pos /\ IsNum(t[i].fantasy_points_ppr)})

\* C14: the per-player summary has one row per player identifier: every
\* player with 16 games at a position has a row of its own there, whose
\* games are that player's games, also when another player has the same
\* display name
C14_OneRowPerPlayer ==
    consistency_out.run =>
        \A pos \in PositionSet :
            LET e == consistency_out.out[pos]
                Q == {p \in PlayerIds(df) : GamesOfPlayer(df, p, pos) >= MinGames}
            IN  e.present =>
                    /\ Len(e.player_consistency) = Cardinality(Q)
                    /\ \A p \in Q :
                          \E k \in DOMAIN e.player_consistency :
                              /\ e.player_consistency[k].games = GamesOfPlayer(df, p, pos)
                              /\ \A i \in RowsOfPlayer(df, p) :
                                    df[i].player_display_name
                                        = e.player_consistency[k].player

\* ------------------------------------------------------------ C17
\* C17: an analysed player whose mean is zero has a missing cv, and the
\* avg_cv of a position is never infinite
C17_ZeroMeanCvMissing ==
    consistency_out.run =>
        \A pos \in PositionSet :
            LET e == consistency_out.out[pos]
            IN  e.present =>
                    /\ \A k \in DOMAIN e.player_consistency :
                          LET r == e.player_consistency[k]
                          IN  (IsNum(r.avg_points) /\ r.avg_points.val = 0) => IsNaN(r.cv)
                    /\ \A k \in DOMAIN e.most_consistent : ~IsInf(e.most_consistent[k].cv)
                    /\ ~IsInf(e.avg_cv)

\* ------------------------------------------------------------ C18
\* C18: in the rookie insights of a position, gap_percentage is missing when
\* the veteran average is missing or zero, and adaptation_improvement is
\* missing when the early-season or the late-season rookie average is
C18_RookieRatiosMissing ==
    rookie_out.run =>
        \A pos \in PositionSet :
            LET e == rookie_out.out.insights[pos]
            IN  /\ (IsNaN(e.veteran_avg) \/ e.veteran_avg.val = 0) => IsNaN(e.gap_percentage)
                /\ (IsNaN(e.early_season_avg) \/ IsNaN(e.late_season_avg))
                       => IsNaN(e.adaptation_improvement)

\* ------------------------------------------------------------ C15
\* C15: once the summary has run, each of its three categories whose own
\* computation does not fail on the table has its insights in the summary,
\* whatever happened to the other two
C15_FailureIsolated ==
    summary_out.run =>
        /\ ~Outcome("rookie", df).raised =>
              /\ ~summary_out.raised
              /\ summary_out.out.rookie_insights = Outcome("rookie", df).out.insights
        /\ ~Outcome("consistency", df).raised =>
              /\ ~summary_out.raised
              /\ summary_out.out.consistency_insights = Outcome("consistency", df).out
        /\ ~Outcome("breakout", df).raised =>
              /\ ~summary_out.raised
              /\ summary_out.out.breakout_insights = Outcome("breakout", df).out.insights

\* ------------------------------------------------------------ C16
\* C16: on a table that has every column, each of the six computations
\* returns, also when a position has no observations or no player that
\* passes the filter: none of them raises
C16_EmptyGroupReturns ==
    \A fn \in Computations :
        (OutputOf(fn).run /\ Columns(df) = SourceColumns) => ~OutputOf(fn).raised

\* ------------------------------------------------------------ C19
\* C19: a computation called again gives what its first call gave, whatever
\* was called in between
C19_Idempotent ==
    repeat_out.run => repeat_out.out = OutputOf(repeat_out.fn)

\* every computation has been called, and the recommendation scorer, which
\* returned picks for a position, has been called a second time
C19_Witness ==
    /\ \A fn \in Computations : OutputOf(fn).run /\ ~OutputOf(fn).raised
    /\ repeat_out.run
    /\ repeat_out.fn = "draft"
    /\ ~repeat_out.out.raised
    /\ \E pos \in PositionSet :
          /\ repeat_out.out.out[pos].present
          /\ Len(repeat_out.out.out[pos].overall_rankings) >= 2

\* ------------------------------------------------------------ C20
\* C20: no step of any computation changes the source table: its rows,
\* columns and values stay what they were
C20_SourceReadOnly == [][df' = df]_vars

\* the six computations and the summary have run on a table with rows,
\* which holds the source columns only
C20_Witness ==
    /\ \A fn \in Computations : OutputOf(fn).run /\ ~OutputOf(fn).raised
    /\ summary_out.run
    /\ df # <<>>
    /\ \A i \in DOMAIN df : DOMAIN df[i] = SourceColumns
    /\ \E season \in available_seasons(df), pos \in PositionSet :
          /\ value_out.out[season][pos].present
          /\ rookie_out.out.df_with_rookie # <<>>

\* ------------------------------------------------------------ C21
\* C21: when the insight computations run side by side over the table they
\* were all given, then however their steps interleave, each of them ends
\* exactly as it ends when it is called alone on that table.
C21_ParallelSafe ==
    \A fn \in Computations :
        OutputOf(fn).run => OutputOf(fn) = Outcome(fn, snapshot)

\* two threads are between two of their reads while a third, started among
\* them, has returned, on a table with four positions and every column
C21_Witness ==
    /\ Cardinality({snapshot[i].position : i \in DOMAIN snapshot}) = 4
    /\ ~rookie_out.run /\ ReadsDone(rookie_out) = 1
    /\ ~consistency_out.run /\ ReadsDone(consistency_out) = 2
    /\ ~trends_out.run /\ ReadsDone(trends_out) = 3
    /\ breakout_out.run /\ ~breakout_out.raised
    /\ value_out.run /\ ~value_out.raised

\* ------------------------------------------------------------ C22
\* the columns a computation reads on its way through
Requires(fn) ==
    SeqSet(RequiredColumns(fn))
        \cup (IF fn = "trends" THEN {"player_display_name"} ELSE {})

\* C22: a computation called on a table that lacks a column it requires
\* ends in an error that names a missing column, and returns no result.
C22_MissingColumnNamed ==
    \A fn \in Computations :
        (OutputOf(fn).run /\ ~(Requires(fn) \subseteq Columns(df))) =>
            /\ OutputOf(fn).raised
            /\ OutputOf(fn).error = "KeyError"
            /\ OutputOf(fn).what \in Requires(fn) \ Columns(df)

\* ------------------------------------------------------------ C23
\* the player of a row has a row of an earlier season in the table
StartedEarlier(t, r) ==
    \E j \in DOMAIN t : t[j].player_id = r.player_id /\ t[j].season < r.season

C24_SelectionBounds ==
    (interface_out.run /\ interface_out.out.status # "no_data") =>
        LET page == interface_out.out
            n == Len(page.selected_players)
        IN  /\ (page.status = "compared") = (n >= 2)
            /\ (page.status = "too_few") = (n < 2)
            /\ page.status = "compared" =>
                  /\ Len(page.player_names) \in 2..5
                  /\ Len(page.player_names) = (IF n > 5 THEN 5 ELSE n)
                  /\ \A k \in DOMAIN page.player_names :
                        page.player_names[k] = page.selected_players[k].player
                  /\ \A k \in DOMAIN page.comparison_data :
                        InSeq(page.comparison_data[k].player_display_name, page.player_names)
                  /\ Len(page.consistency_data) = Len(page.player_names)

\* six players were selected from the bottom of the list up, and five kept
C24_Witness ==
    /\ interface_out.run
    /\ interface_out.out.status = "compared"
    /\ Len(interface_out.out.selected_players) = 6
    /\ interface_out.out.selected_players[1] = interface_out.out.player_options[6]
    /\ Len(interface_out.out.player_names) = 5

\* ------------------------------------------------------------ C26
\* C26: for 2 to 5 selected players, create_comparison_table completes
\* (and shows a row for each player and a column for each season, with the
\* season totals).
C26_ComparisonTableCompletes ==
    (interface_out.run /\ interface_out.out.status = "compared") =>
        ~interface_out.out.comparison_table.raised

\* ------------------------------------------------------------ C25
\* the files of the steps that completed, and of the steps that were started
FilesCompleted == UNION {FilesOf(steps[i].step) : i \in {k \in DOMAIN steps : steps[k].ok}}

FilesStarted == UNION {FilesOf(steps[i].step) : i \in DOMAIN steps}

RawFiles ==
    {"weekly_fantasy_data.csv", "seasonal_data.csv", "team_data.csv",
     "roster_fantasy_data.csv"}

DerivedFiles ==
    {"consolidated_fantasy_data.csv", "qb_data.csv", "rb_data.csv", "wr_data.csv",
     "te_data.csv", "data_summary.json"}

\* C25: create_sample_data runs only after collect_historical_data has
\* returned True; a collection step that raises is the last step of the run
\* and collect_historical_data returns False; the consolidated dataset and
\* the per-position files exist only when the four raw files do; the
\* directory holds the whole file of every step that completed, those
\* written before a failure included, and no file of a step not started.
C25_CollectionOrdering ==
    /\ \A i \in DOMAIN steps :
          /\ steps[i].step = "sample" =>
                /\ success = "True"
                /\ i = Len(CollectionSteps) + 1
                /\ \A k \in 1..(i - 1) : steps[k] = [step |-> CollectionSteps[k], ok |-> TRUE]
          /\ (steps[i].step # "sample" /\ ~steps[i].ok) =>
                /\ i = Len(steps)
                /\ success = "False"
                /\ pc \in {"returned", "done"}
          /\ steps[i].step # "sample" => steps[i].step = CollectionSteps[i]
    /\ success = "True" => \A k \in DOMAIN CollectionSteps :
                              steps[k] = [step |-> CollectionSteps[k], ok |-> TRUE]
    /\ DOMAIN files \cap DerivedFiles # {} => RawFiles \subseteq FilesCompleted
    /\ FilesCompleted \subseteq DOMAIN files
    /\ \A f \in FilesCompleted : files[f].whole
    /\ DOMAIN files \subseteq FilesStarted

\* the consolidation raised after the four raw files were written: the
\* script is over, no sample was made and the raw files are in place
C25_Witness ==
    /\ pc = "done"
    /\ success = "False"
    /\ Len(steps) = 6
    /\ steps[6] = [step |-> "consolidate", ok |-> FALSE]
    /\ DOMAIN files = RawFiles
    /\ files["weekly_fantasy_data.csv"].data # <<>>

\* the collection returned True and the sample was written
C25_SampleWitness ==
    /\ pc = "done"
    /\ success = "True"
    /\ "sample_fantasy_data.csv" \in DOMAIN files
    /\ files["sample_fantasy_data.csv"].data # <<>>

\* ------------------------------------------------------------ C30
\* the rows of the consolidated dataset that are one weekly observation
RowsOf(weekly_consolidated, observation) ==
    {k \in DOMAIN weekly_consolidated :
        /\ weekly_consolidated[k].player_id = observation.player_id
        /\ weekly_consolidated[k].season = observation.season
        /\ weekly_consolidated[k].week = observation.week}

\* C30: every weekly fantasy observation appears exactly once in the
\* consolidated dataset, and total_weekly_records is the number of weekly
\* fantasy observations.
C30_EveryObservationOnce ==
    /\ "weekly_consolidated" \in DOMAIN frames =>
          \A i \in DOMAIN frames["weekly_fantasy"] :
              Cardinality(RowsOf(frames["weekly_consolidated"],
                                 frames["weekly_fantasy"][i])) = 1
    /\ success = "True" =>
          files["data_summary.json"].data.total_weekly_records
              = Len(FantasyOnly(nfl.weekly))

\* ------------------------------------------------------------ C27
\* the valid year-over-year rows of a position that meet the breakout
\* thresholds, or the bust thresholds
RowsMeeting(pos_data, breakout) ==
    {i \in DOMAIN pos_data :
        IF breakout
        THEN pos_data[i].yoy_change.val > 50 /\ PctGt(pos_data[i].yoy_change_pct, 25)
        ELSE pos_data[i].yoy_change.val < -50 /\ PctLt(pos_data[i].yoy_change_pct, -25)}

\* C27: for a position with valid year-over-year rows, breakout_rate is 100
\* times the number of its rows that meet the breakout thresholds divided
\* by the number of its rows, and bust_rate likewise with the bust
\* thresholds, also when more than 10 rows meet the thresholds.
C27_RatesCountEveryRow ==
    breakout_out.run =>
        \A pos \in PositionSet :
            LET e == breakout_out.out.insights[pos]
            IN  e.present =>
                    /\ e.breakout_rate
                         = Num((Cardinality(RowsMeeting(e.pos_data, TRUE)) * 100 * Scale)
                                  \div Len(e.pos_data))
                    /\ e.bust_rate
                         = Num((Cardinality(RowsMeeting(e.pos_data, FALSE)) * 100 * Scale)
                                  \div Len(e.pos_data))

\* ------------------------------------------------------------ C28
\* C28: top_vbd_players of a season and position holds the players with the
\* highest season totals, at most 10 of them, and every player listed has
\* vbd >= 0: the replacement rank is never above the list.
C28_TopVbdNonNegative ==
    value_out.run =>
        \A season \in SeasonsOf(df) : \A pos \in PositionSet :
            LET e == value_out.out[season][pos]
                P == PlayersAt(df, season, pos)
                listed == {<<e.top_vbd_players[i].player_id,
                             e.top_vbd_players[i].player_display_name>> :
                              i \in DOMAIN e.top_vbd_players}
            IN  e.present =>
                  /\ Len(e.top_vbd_players) = Min(10, Cardinality(P))
                  /\ Cardinality(listed) = Len(e.top_vbd_players)
                  /\ listed \subseteq P
                  /\ \A who \in listed : \A other \in P \ listed :
                        TotalAt(df, who, season, pos) >= TotalAt(df, other, season, pos)
                  /\ \A i \in DOMAIN e.top_vbd_players :
                        /\ IsNum(e.top_vbd_players[i].vbd)
                        /\ e.top_vbd_players[i].vbd.val >= 0

\* 30 receivers with different totals: ten are listed, the tenth is above
\* the 24th, and a player outside the list is below the baseline
C28_Witness ==
    /\ value_out.run
    /\ df = ValueTable(30, "WR", 3, FALSE)
    /\ Len(value_out.out[2024]["WR"].top_vbd_players) = 10
    /\ value_out.out[2024]["WR"].top_vbd_players[10].vbd.val > 0
    /\ value_out.out[2024]["WR"].pos_data[30].vbd.val < 0

\* ------------------------------------------------------------ C29
\* the K-th largest season total of a season and position
KthLargestTotal(K, season, pos) ==
    CHOOSE v \in {TotalAt(df, who, season, pos) : who \in PlayersAt(df, season, pos)} :
        IsKthLargest(v, K, df, season, pos)

\* C29: for a season and position with n >= 1 players, position_depth is
\* the number of players whose season total is strictly greater than the
\* replacement baseline, and it is at most min(replacement_rank, n) - 1.
C29_PositionDepth ==
    value_out.run =>
        \A season \in SeasonsOf(df) : \A pos \in PositionSet :
            LET e == value_out.out[season][pos]
                P == PlayersAt(df, season, pos)
                N == IF pos \in {"QB", "TE"} THEN 12 ELSE 24
                K == Min(N, Cardinality(P))
            IN  P # {} =>
                  /\ e.present
                  /\ e.position_depth
                        = Cardinality({who \in P : TotalAt(df, who, season, pos)
                                                     > KthLargestTotal(K, season, pos)})
                  /\ e.position_depth <= K - 1

\* totals that tie with the baseline: the depth is below the rank minus one;
\* and a list without ties, where it is the rank minus one
C29_Witness ==
    /\ value_out.run
    /\ df = ValueTable(30, "QB", 2, FALSE)
    /\ value_out.out[2024]["QB"].replacement_value = Num(1)
    /\ value_out.out[2024]["QB"].position_depth = 10

====
